---- MODULE Spec2Model ----
(***************************************************************************)
(* Rufs - Remote Union File System.                                        *)
(*                                                                         *)
(* A model of the branch engine (package rufs, Branch), the RPC transport  *)
(* (package node, Client / RufsServer) and the tree client (package rufs,  *)
(* Tree / treeItem).                                                       *)
(*                                                                         *)
(* Path names are sequences of components, a component is a sequence of    *)
(* one-character strings, so that string operations of the code (prefix    *)
(* tests, sorting, cleaning of "..") are computed and not assumed.         *)
(***************************************************************************)
EXTENDS Integers, Sequences, FiniteSets, TLC

\* ------------------------------------------------------------------------
\* Bounds of the model
\* ------------------------------------------------------------------------

\* Most requests a branch serves in one run of the branch specification.
MaxRequests == 3
\* Most entries the host file system may hold below "/".
MaxEntries == 4
\* Longest file the model lets a write produce.
MaxFileLen == 2
\* Size of the pooled read/write buffers (DefaultReadBufferSize, scaled).
ReadBufferSize == 2

\* ------------------------------------------------------------------------
\* Names, paths and strings
\* ------------------------------------------------------------------------

cR == <<"r">>
cRX == <<"r", "x">>
cF == <<"f">>
cD == <<"d">>
Dot == <<".">>
DotDot == <<".", ".">>
Star == <<"*">>

\* Byte order of the characters the model uses (sort.Strings, ioutil.ReadDir).
CharRank(c) ==
    CASE c = "*" -> 1
      [] c = "." -> 2
      [] c = "/" -> 3
      [] c = "a" -> 4
      [] c = "b" -> 5
      [] c = "d" -> 6
      [] c = "f" -> 7
      [] c = "r" -> 8
      [] c = "x" -> 9
      [] OTHER -> 10

RECURSIVE StrLess(_, _)
StrLess(a, b) ==
    IF a = <<>> THEN b # <<>>
    ELSE IF b = <<>> THEN FALSE
    ELSE IF a[1] = b[1] THEN StrLess(Tail(a), Tail(b))
    ELSE CharRank(a[1]) < CharRank(b[1])

MinStr(S) == CHOOSE s \in S : \A t \in S : t = s \/ StrLess(s, t)

RECURSIVE SortStrings(_)
SortStrings(S) ==
    IF S = {} THEN <<>>
    ELSE LET m == MinStr(S) IN <<m>> \o SortStrings(S \ {m})

Front(s) == SubSeq(s, 1, Len(s) - 1)
Reverse(s) == [i \in 1..Len(s) |-> s[Len(s) + 1 - i]]
Last(s) == s[Len(s)]
Min(a, b) == IF a < b THEN a ELSE b

\* The element of a set of one element
Only(S) == CHOOSE x \in S : TRUE

\* strings.HasPrefix on character sequences
HasPrefix(s, t) == Len(t) <= Len(s) /\ SubSeq(s, 1, Len(t)) = t

\* strings.Contains(s, "*") on a character sequence
ContainsStar(s) == \E i \in 1..Len(s) : s[i] = "*"

\* The string of an absolute path: "/" for the empty path, "/c1/c2" otherwise.
RECURSIVE PathChars(_)
PathChars(p) ==
    IF p = <<>> THEN <<>>
    ELSE <<"/">> \o Head(p) \o PathChars(Tail(p))

PathStr(p) == IF p = <<>> THEN <<"/">> ELSE PathChars(p)

\* filepath.Clean of a rooted path: "." and "" vanish, ".." removes the
\* component before it and vanishes at the root.
RECURSIVE CleanAbs(_, _)
CleanAbs(acc, rest) ==
    IF rest = <<>> THEN acc
    ELSE LET c == Head(rest) IN
         IF c = <<>> \/ c = Dot THEN CleanAbs(acc, Tail(rest))
         ELSE IF c = DotDot
              THEN CleanAbs(IF acc = <<>> THEN acc ELSE Front(acc), Tail(rest))
              ELSE CleanAbs(Append(acc, c), Tail(rest))

\* path.Clean of a relative path: a ".." that has nothing to remove stays.
RECURSIVE CleanRel(_, _)
CleanRel(acc, rest) ==
    IF rest = <<>> THEN acc
    ELSE LET c == Head(rest) IN
         IF c = <<>> \/ c = Dot THEN CleanRel(acc, Tail(rest))
         ELSE IF c = DotDot /\ acc # <<>> /\ Last(acc) # DotDot
              THEN CleanRel(Front(acc), Tail(rest))
              ELSE CleanRel(Append(acc, c), Tail(rest))

\* filepath.Join(abs, rel...) for an absolute first element
JoinAbs(abs, rel) == CleanAbs(<<>>, abs \o rel)
\* path.Join(rel1, rel2) for relative elements
JoinRel(a, b) == CleanRel(<<>>, a \o b)

\* filepath.Split: the final component (the text behind the last separator)
SplitFile(p) == IF p = <<>> THEN <<>> ELSE Last(p)
SplitDir(p) == IF p = <<>> THEN <<>> ELSE Front(p)

\* a is p or an ancestor directory of p (component-wise)
IsUnder(a, p) == Len(a) <= Len(p) /\ SubSeq(p, 1, Len(a)) = a

\* ------------------------------------------------------------------------
\* The host file system: a function from absolute paths to entries.
\* The root directory <<>> always exists.
\* ------------------------------------------------------------------------

ENOENT == "no such file or directory"
ErrNotExist == "file does not exist"
ENOTDIR == "not a directory"
EISDIR == "is a directory"
EEXIST == "file exists"
EINVAL == "invalid argument"
EOF == "EOF"

OsIsNotExist(err) == err \in {ENOENT, ErrNotExist}

DirEntry == [dir |-> TRUE, data |-> <<>>]
FileEntry(data) == [dir |-> FALSE, data |-> data]

Exists(fs, p) == p \in DOMAIN fs

\* os.Stat: "" on success, else the errno text
StatErr(fs, p) ==
    IF Exists(fs, p) THEN ""
    ELSE IF \E i \in 0..(Len(p) - 1) :
               Exists(fs, SubSeq(p, 1, i)) /\ ~fs[SubSeq(p, 1, i)].dir
         THEN ENOTDIR
         ELSE ENOENT

Children(fs, p) == {q \in DOMAIN fs : Len(q) = Len(p) + 1 /\ IsUnder(p, q)}

\* os.MkdirAll
MkdirAllErr(fs, p) ==
    IF \E i \in 0..Len(p) : Exists(fs, SubSeq(p, 1, i)) /\ ~fs[SubSeq(p, 1, i)].dir
    THEN ENOTDIR ELSE ""

MkdirAll(fs, p) ==
    IF MkdirAllErr(fs, p) # "" THEN fs
    ELSE [q \in DOMAIN fs \cup {SubSeq(p, 1, i) : i \in 0..Len(p)} |->
             IF q \in DOMAIN fs THEN fs[q] ELSE DirEntry]

\* os.RemoveAll: the entry and everything below it; the host root stays.
RemoveAll(fs, p) ==
    [q \in {q \in DOMAIN fs : q = <<>> \/ ~IsUnder(p, q)} |-> fs[q]]

\* os.Rename
RenameErr(fs, old, new) ==
    IF StatErr(fs, old) # "" THEN StatErr(fs, old)
    ELSE IF old = new THEN ""
    ELSE IF IsUnder(old, new) \/ new = <<>> \/ old = <<>> THEN EINVAL
    ELSE IF StatErr(fs, SplitDir(new)) # "" THEN StatErr(fs, SplitDir(new))
    ELSE IF ~fs[SplitDir(new)].dir THEN ENOTDIR
    ELSE IF ~Exists(fs, new) THEN ""
    ELSE IF fs[new].dir /\ ~fs[old].dir THEN EISDIR
    ELSE IF ~fs[new].dir /\ fs[old].dir THEN ENOTDIR
    ELSE IF fs[new].dir /\ Children(fs, new) # {} THEN EEXIST
    ELSE ""

Rename(fs, old, new) ==
    IF RenameErr(fs, old, new) # "" \/ old = new THEN fs
    ELSE LET rest == RemoveAll(RemoveAll(fs, new), old)
             moved == {q \in DOMAIN fs : IsUnder(old, q)}
             Target(q) == new \o SubSeq(q, Len(old) + 1, Len(q))
         IN [q \in DOMAIN rest \cup {Target(m) : m \in moved} |->
                IF q \in DOMAIN rest THEN rest[q]
                ELSE fs[old \o SubSeq(q, Len(new) + 1, Len(q))]]

\* ioutil.ReadDir: the names in the directory, sorted
ReadDirErr(fs, p) ==
    IF StatErr(fs, p) # "" THEN StatErr(fs, p)
    ELSE IF ~fs[p].dir THEN ENOTDIR ELSE ""

ReadDir(fs, p) == SortStrings({Last(q) : q \in Children(fs, p)})

\* ------------------------------------------------------------------------
\* Branch engine (type Branch).  A branch is [name, rootPath, readonly]; its
\* operations work on the host file system fs and report
\*   err      the error text ("" for nil)
\*   n, data  the count and bytes of a read or write
\*   ok       the boolean result of an item operation
\*   dirs,fis the listing of a Dir
\*   touched  the absolute paths handed to the operating system
\*   resolved whether constructSubPath was reached
\* ------------------------------------------------------------------------

ErrReadOnly == "Branch is read-only"
ErrOutside == "Requested path is outside of the branch"
ErrSpecific == "This operation requires a specific file or directory"
ErrReadDir == "read: is a directory"

\* Size the listing reports for a directory
DirSize == 4096

Zeros(n) == [i \in 1..n |-> 0]

Result(fs, err) ==
    [fs |-> fs, err |-> err, n |-> 0, data |-> <<>>, ok |-> FALSE,
     dirs |-> <<>>, fis |-> <<>>, touched |-> {}, resolved |-> FALSE]

\* A check that never refuses
checkReadOnlyOff(b) == ""

\* Branch.checkReadOnly
checkReadOnly(b) == IF b.readonly THEN ErrReadOnly ELSE ""

\* The containment test of constructSubPath (strings.HasPrefix)
InsideRoot(root, sub) == HasPrefix(PathStr(sub), PathStr(root))

\* Branch.constructSubPath
constructSubPath(b, rpath) ==
    LET subPath == JoinAbs(b.rootPath, rpath) IN
    IF InsideRoot(b.rootPath, subPath)
    THEN [err |-> "", path |-> subPath]
    ELSE [err |-> ErrOutside, path |-> <<>>]

\* The pattern of a listing: the empty regular expression matches every name,
\* a glob (as translated by GlobToRegex) is anchored and "*" stands for any
\* run of characters, a literal name is an unanchored regular expression.
PatAll == [kind |-> "all", s |-> <<>>]
PatGlob(s) == [kind |-> "glob", s |-> s]
PatLiteral(s) == [kind |-> "literal", s |-> s]

RECURSIVE GlobMatch(_, _)
GlobMatch(g, s) ==
    IF g = <<>> THEN s = <<>>
    ELSE IF Head(g) = "*"
         THEN \E i \in 0..Len(s) : GlobMatch(Tail(g), SubSeq(s, i + 1, Len(s)))
         ELSE s # <<>> /\ Head(s) = Head(g) /\ GlobMatch(Tail(g), Tail(s))

SubstringOf(t, s) ==
    \E i \in 0..(Len(s) - Len(t)) : SubSeq(s, i + 1, i + Len(t)) = t

MatchString(pat, name) ==
    CASE pat.kind = "all" -> TRUE
      [] pat.kind = "glob" -> GlobMatch(pat.s, name)
      [] OTHER -> SubstringOf(pat.s, name)

\* WrapFileInfo plus the checksum of createRufsFileInfos.  The checksum of a
\* file is modelled by its content.
FileInfoOf(fs, dir, name, checksums) ==
    LET e == fs[Append(dir, name)] IN
    [name |-> name,
     size |-> IF e.dir THEN DirSize ELSE Len(e.data),
     isDir |-> e.dir,
     sum |-> IF checksums /\ ~e.dir THEN <<"sum", e.data>> ELSE <<>>,
     from |-> ""]

\* createRufsFileInfos
createRufsFileInfos(fs, dir, pat, checksums) ==
    LET names == ReadDir(fs, dir)
        Keep(nm) == MatchString(pat, nm)
        kept == SelectSeq(names, Keep)
    IN [i \in 1..Len(kept) |-> FileInfoOf(fs, dir, kept[i], checksums)]

\* addSubDir of Branch.Dir: depth first, siblings in name order
RECURSIVE addSubDir(_, _, _, _, _)
addSubDir(fs, p, rp, pat, checksums) ==
    LET names == ReadDir(fs, p)
        IsSub(nm) == fs[Append(p, nm)].dir
        subs == SelectSeq(names, IsSub)
        Walk[i \in 0..Len(subs)] ==
            IF i = 0 THEN [rpaths |-> <<>>, rfis |-> <<>>, seen |-> {}]
            ELSE LET r == addSubDir(fs, Append(p, subs[i]),
                                    JoinRel(rp, <<subs[i]>>), pat, checksums)
                 IN [rpaths |-> Walk[i - 1].rpaths \o r.rpaths,
                     rfis |-> Walk[i - 1].rfis \o r.rfis,
                     seen |-> Walk[i - 1].seen \cup r.seen]
    IN [rpaths |-> <<rp>> \o Walk[Len(subs)].rpaths,
        rfis |-> <<createRufsFileInfos(fs, p, pat, checksums)>> \o Walk[Len(subs)].rfis,
        seen |-> {p} \cup Walk[Len(subs)].seen]

\* Branch.Dir
BranchDir(b, fs, spath, pat, recursive, checksums) ==
    LET Resolved(err) == [Result(fs, err) EXCEPT !.resolved = TRUE]
        Listing(t, r) == [t EXCEPT !.dirs = r.rpaths, !.fis = r.rfis, !.touched = r.seen]
        List(subPath, t, rderr) ==
            IF rderr # ""
            THEN [t EXCEPT !.err = IF OsIsNotExist(rderr) THEN "" ELSE rderr]
            ELSE IF ~recursive
                 THEN [t EXCEPT !.dirs = <<spath>>,
                                !.fis = <<createRufsFileInfos(fs, subPath, pat, checksums)>>]
                 ELSE Listing(t, addSubDir(fs, subPath, spath, pat, checksums))
        At(csp) ==
            IF csp.err # "" THEN Resolved(csp.err)
            ELSE List(csp.path, [Resolved("") EXCEPT !.touched = {csp.path}],
                      ReadDirErr(fs, csp.path))
    IN At(constructSubPath(b, spath))

\* Branch.ReadFile into a buffer buf of the requested size
BranchReadFile(b, fs, spath, buf, offset) ==
    LET Resolved(err) == [Result(fs, err) EXCEPT !.resolved = TRUE, !.data = buf]
        Fill(t, content, n) ==
            [t EXCEPT !.n = n,
                      !.data = [i \in 1..Len(buf) |->
                                   IF i <= n THEN content[offset + i] ELSE buf[i]]]
        ReadAt(t, content) ==
            IF offset >= Len(content) THEN [t EXCEPT !.err = EOF]
            ELSE Fill(t, content, Min(Len(buf), Len(content) - offset))
        Open(subPath, t, staterr) ==
            IF staterr # "" THEN [t EXCEPT !.err = staterr]
            ELSE IF fs[subPath].dir THEN [t EXCEPT !.err = ErrReadDir]
            ELSE ReadAt(t, fs[subPath].data)
        At(csp) ==
            IF csp.err # "" THEN Resolved(csp.err)
            ELSE Open(csp.path, [Resolved("") EXCEPT !.touched = {csp.path}],
                      StatErr(fs, csp.path))
    IN At(constructSubPath(b, spath))

\* growFile of Branch.WriteFile: n bytes taken from the pooled buffer, in
\* pieces of at most DefaultReadBufferSize
growFile(buf, n) == [i \in 1..n |-> buf[((i - 1) % ReadBufferSize) + 1]]

\* Writing p at position pos of a file
WriteAt(content, pos, p) ==
    SubSeq(content, 1, pos) \o p \o SubSeq(content, pos + Len(p) + 1, Len(content))

\* Branch.WriteFile with the buffer buf taken from byteSlicePool
BranchWriteFile(b, fs, spath, p, offset, buf) ==
    LET Resolved(err) == [Result(fs, err) EXCEPT !.resolved = TRUE]
        Put(t, fs1, subPath, content) ==
            [t EXCEPT !.fs = [q \in DOMAIN fs1 \cup {subPath} |->
                                 IF q = subPath THEN FileEntry(content) ELSE fs1[q]],
                      !.n = Len(p)]
        Create(subPath, t, dir, mkerr) ==
            IF mkerr # "" THEN [t EXCEPT !.err = mkerr]
            ELSE Put(t, MkdirAll(fs, dir), subPath,
                     (IF offset > 0 THEN growFile(buf, offset) ELSE <<>>) \o p)
        Update(subPath, t, old) ==
            Put(t, fs, subPath,
                WriteAt(IF Len(old) < offset
                        THEN old \o growFile(buf, offset - Len(old))
                        ELSE old,
                        offset, p))
        Write(subPath, t, staterr, dir) ==
            IF OsIsNotExist(staterr)
            THEN Create(subPath, [t EXCEPT !.touched = {subPath, dir}], dir,
                        MkdirAllErr(fs, dir))
            ELSE IF staterr = ""
            THEN \* the error of os.OpenFile is assigned to a shadowed variable
                 IF fs[subPath].dir THEN t
                 ELSE Update(subPath, t, fs[subPath].data)
            ELSE [t EXCEPT !.err = staterr]
        At(csp) ==
            IF csp.err # "" THEN Resolved(csp.err)
            ELSE Write(csp.path, [Resolved("") EXCEPT !.touched = {csp.path}],
                       StatErr(fs, csp.path), SplitDir(csp.path))
    IN
    IF checkReadOnly(b) # "" THEN Result(fs, checkReadOnly(b))
    ELSE At(constructSubPath(b, spath))

\* fileFromOpData of Branch.ItemOp
fileFromOpData(subPath, opname) ==
    IF SplitFile(opname) = <<>>
    THEN [err |-> ErrSpecific, path |-> <<>>]
    ELSE [err |-> "", path |-> JoinAbs(subPath, <<SplitFile(opname)>>)]

\* The removals of the wildcard delete: every listed entry, located at
\* filepath.Join(rootdir, dir, name)
RECURSIVE RemoveEach(_, _)
RemoveEach(fs, targets) ==
    IF targets = <<>> THEN fs
    ELSE RemoveEach(RemoveAll(fs, Head(targets)), Tail(targets))

RECURSIVE Flatten(_)
Flatten(ss) == IF ss = <<>> THEN <<>> ELSE Head(ss) \o Flatten(Tail(ss))

WildcardTargets(rootdir, dirs, fis) ==
    Flatten([i \in 1..Len(dirs) |->
               [j \in 1..Len(fis[i]) |->
                   JoinAbs(rootdir, dirs[i] \o <<fis[i][j].name>>)]])

SeqToSet(s) == {s[i] : i \in 1..Len(s)}

\* Branch.ItemOp; op is [action, name, newname]
BranchItemOp(b, fs, spath, op) ==
    LET Resolved(err) == [Result(fs, err) EXCEPT !.resolved = TRUE]
        Done(r) == [r EXCEPT !.ok = (r.err = "" \/ OsIsNotExist(r.err))]
        Removed(d, targets) ==
            IF d.err # "" THEN [Resolved(d.err) EXCEPT !.touched = d.touched]
            ELSE [Resolved("") EXCEPT !.fs = RemoveEach(fs, targets),
                                      !.touched = d.touched \cup SeqToSet(targets)]
        Wildcard(rootdir, d) == Removed(d, WildcardTargets(rootdir, d.dirs, d.fis))
        Delete(path) ==
            IF ContainsStar(PathStr(path))
            THEN Wildcard(SplitDir(path),
                          BranchDir(b, fs, spath, PatGlob(SplitFile(path)), TRUE, FALSE))
            ELSE IF StatErr(fs, path) = ""
                 THEN [Resolved("") EXCEPT !.fs = RemoveAll(fs, path),
                                           !.touched = {path}]
                 ELSE [Resolved(ErrNotExist) EXCEPT !.touched = {path}]
        Act(name, newname) ==
            CASE op.action = "mkdir" ->
                   IF name.err # "" THEN Resolved(name.err)
                   ELSE [Resolved(MkdirAllErr(fs, name.path))
                            EXCEPT !.fs = MkdirAll(fs, name.path),
                                   !.touched = {name.path}]
              [] op.action = "rename" ->
                   IF name.err # "" THEN Resolved(name.err)
                   ELSE IF newname.err # "" THEN Resolved(newname.err)
                   ELSE [Resolved(RenameErr(fs, name.path, newname.path))
                            EXCEPT !.fs = Rename(fs, name.path, newname.path),
                                   !.touched = {name.path, newname.path}]
              [] op.action = "delete" ->
                   IF name.err # "" THEN Resolved(name.err)
                   ELSE Delete(name.path)
              [] OTHER -> Resolved("")
        At(csp) ==
            IF csp.err # "" THEN Resolved(csp.err)
            ELSE Done(Act(fileFromOpData(csp.path, op.name),
                          fileFromOpData(csp.path, op.newname)))
    IN
    IF checkReadOnly(b) # "" THEN Result(fs, checkReadOnly(b))
    ELSE At(constructSubPath(b, spath))

\* Branch.WriteFileFromBuffer.  The source is [chunks, tail]: the successive
\* results of buf.Read that return no error, then the bytes returned together
\* with io.EOF (tail, usually empty).  Every WriteFile of the loop is handed
\* the pooled buffer buf.
RECURSIVE WriteChunks(_, _, _, _, _, _)
WriteChunks(b, fs, spath, chunks, offset, buf) ==
    LET Merge(w, rest) == [rest EXCEPT !.touched = rest.touched \cup w.touched]
        Next(w) ==
            IF w.err # "" THEN w
            ELSE Merge(w, WriteChunks(b, w.fs, spath, Tail(chunks),
                                      offset + Len(Head(chunks)), buf))
    IN
    IF chunks = <<>>
    THEN \* io.EOF: the result of the final empty write is dropped
         [BranchWriteFile(b, fs, spath, <<>>, offset, buf) EXCEPT !.err = "", !.n = 0]
    ELSE Next(BranchWriteFile(b, fs, spath, Head(chunks), offset, buf))

BranchWriteFileFromBuffer(b, fs, spath, src, buf) ==
    IF checkReadOnly(b) # "" THEN Result(fs, checkReadOnly(b))
    ELSE WriteChunks(b, fs, spath, src.chunks, 0, buf)

\* The control map of a request (keys a, p, x, r, c, o, s and the itemop_* keys)
Ctrl(a, p) ==
    [a |-> a, p |-> p, x |-> PatAll, r |-> FALSE, c |-> FALSE, o |-> 0, s |-> 0,
     action |-> "", name |-> <<>>, newname |-> <<>>]

\* byteSlicePool: Get hands out a pooled buffer or a new zeroed one; the model
\* keeps at most the buffer that was put back last.
PoolGet(pool) == pool \cup {Zeros(ReadBufferSize)}

\* Branch.requestHandler, the case of every action; got is the buffer
\* byteSlicePool.Get returned.  The result carries the pool after the
\* deferred Put.
handleDir(b, fs, pool, ctrl, data, got) ==
    [res |-> BranchDir(b, fs, ctrl.p, ctrl.x, ctrl.r, ctrl.c), pool |-> pool]

handleItemOp(b, fs, pool, ctrl, data, got) ==
    [res |-> BranchItemOp(b, fs, ctrl.p,
                [action |-> ctrl.action, name |-> ctrl.name, newname |-> ctrl.newname]),
     pool |-> pool]

handleRead(b, fs, pool, ctrl, data, got) ==
    LET Reply(buf, r) ==
            [res |-> IF r.err = "" THEN r ELSE [r EXCEPT !.data = <<>>],
             pool |-> {r.data \o SubSeq(buf, ctrl.s + 1, Len(buf))}]
        Read(buf) ==
            Reply(buf, BranchReadFile(b, fs, ctrl.p, SubSeq(buf, 1, ctrl.s), ctrl.o))
    IN Read(IF Len(got) < ctrl.s THEN Zeros(ctrl.s) ELSE got)

handleWrite(b, fs, pool, ctrl, data, got) ==
    [res |-> BranchWriteFile(b, fs, ctrl.p, data, ctrl.o, got),
     pool |-> IF checkReadOnly(b) # "" THEN pool ELSE {got}]

\* Branch.requestHandler
requestHandler(b, fs, pool, ctrl, data, got) ==
    CASE ctrl.a = "dir" -> handleDir(b, fs, pool, ctrl, data, got)
      [] ctrl.a = "itemop" -> handleItemOp(b, fs, pool, ctrl, data, got)
      [] ctrl.a = "read" -> handleRead(b, fs, pool, ctrl, data, got)
      [] ctrl.a = "write" -> handleWrite(b, fs, pool, ctrl, data, got)
      [] OTHER -> [res |-> Result(fs, "unknown action"), pool |-> pool]

\* ------------------------------------------------------------------------
\* Transport, server side: the RPC server of a process
\* ------------------------------------------------------------------------

ErrNodeComm == "Network error"
ErrRemoteAction == "Remote error"
ErrUnknownTarget == "Unknown target node"
ErrUntrustedTarget == "Unexpected SSL certificate from target node"
ErrInvalidToken == "Invalid node token"
ErrShutdown == "connection is shut down"
ErrUnexpectedEOF == "unexpected EOF"
RufsErrorPrefix == "RufsError: "

\* Go maps: a missing key reads as the zero value
EmptyMap == [k \in {} |-> ""]
MapPut(m, k, v) == [x \in DOMAIN m \cup {k} |-> IF x = k THEN v ELSE m[x]]
MapDelete(m, k) == [x \in DOMAIN m \ {k} |-> m[x]]
MapGet(m, k, zero) == IF k \in DOMAIN m THEN m[k] ELSE zero

\* fmt.Sprintf("%X", sha512.Sum512_224(b)): a digest of the whole byte
\* string; equal byte strings have equal digests, distinct ones distinct
\* digests
Sum512Hex(b) == <<"SHA512/224">> \o b

\* The token a node of the given name computes from a secret (NewNode)
NodeToken(name, secret) == [NodeName |-> name, NodeAuth |-> Sum512Hex(name \o secret)]

\* The mutant of checkToken: any token of a registered target passes
checkTokenAnyAuth(registry, request) ==
    IF request.target \in DOMAIN registry
    THEN [ok |-> TRUE, err |-> ""]
    ELSE [ok |-> FALSE, err |-> ErrUnknownTarget]

\* RufsServer.checkToken
checkToken(registry, request) ==
    IF request.target \in DOMAIN registry
    THEN LET node == registry[request.target]
             expectedAuth == Sum512Hex(request.token.NodeName \o node.secret)
         IN IF request.token.NodeAuth = expectedAuth
            THEN [ok |-> TRUE, err |-> ""]
            ELSE [ok |-> FALSE, err |-> ErrInvalidToken]
    ELSE [ok |-> FALSE, err |-> ErrUnknownTarget]

\* What the server hands to the RPC layer: the response, the error text and
\* whether the data handler of the target ran
Answer(resp, err, invoked) == [resp |-> resp, err |-> err, invoked |-> invoked]

\* RufsServer.Ping
ServerPing(registry, request) ==
    LET c == checkToken(registry, request) IN
    IF c.err # "" THEN Answer(<<>>, c.err, FALSE) ELSE Answer(<<"Pong">>, "", FALSE)

\* RufsServer.Data; h is what the data handler of the target returns for
\* the control map and the data of the request
ServerData(registry, request, h) ==
    LET c == checkToken(registry, request) IN
    IF c.err # "" \/ ~registry[request.target].handler
    THEN Answer(<<>>, c.err, FALSE)
    ELSE Answer(IF h.err = "" THEN h.res ELSE <<>>, h.err, TRUE)

\* fingerprint: the colon separated hex SHA-256 of the raw certificate
fingerprint(cert) == IF cert = "" THEN "" ELSE "sha256:" \o cert

\* ------------------------------------------------------------------------
\* Transport, client side: the pure parts of Client
\* ------------------------------------------------------------------------

\* strings.HasPrefix on texts
HasPrefixStr(s, p) == Len(s) >= Len(p) /\ SubSeq(s, 1, Len(p)) = p

\* An error value of the transport; type "" is nil
NodeError(type, detail, isNotExist) ==
    [type |-> type, detail |-> detail, isNotExist |-> isNotExist]
NilError == NodeError("", "", FALSE)

\* Error.Error
ErrorText(e) ==
    IF e.detail # "" THEN RufsErrorPrefix \o e.type \o " (" \o e.detail \o ")"
    ELSE RufsErrorPrefix \o e.type

\* The errors of rpc.Client.Call on a connection that is closed
ClosedErrors == {ErrShutdown, EOF, ErrUnexpectedEOF}

\* handleError of SendRequest; isNet tells a net.Error, text is err.Error()
\* and "" is nil.  A text that starts with the RufsError prefix stays the
\* rpc.ServerError it is.
handleError(isNet, text) ==
    IF isNet THEN NodeError(ErrNodeComm, text, FALSE)
    ELSE IF text = "" THEN NilError
    ELSE IF ~HasPrefixStr(text, RufsErrorPrefix)
         THEN NodeError(ErrRemoteAction, text, text = ErrNotExist)
    ELSE NodeError("ServerError", text, FALSE)

\* The mutant of the retry condition: the redial flag is not consulted
retryCallAlways(redial, err) == err \in ClosedErrors

\* The condition under which SendRequest evicts the connection and calls
\* itself again
retryCall(redial, err) == ~redial /\ err \in ClosedErrors

\* The mutant of the fingerprint comparison: every certificate is accepted
untrustedNever(expected, rfp) == FALSE

\* The condition under which SendRequest rejects the presented certificate
\* (reached only with a non-empty expected fingerprint)
untrusted(expected, rfp) == expected # rfp

\* ------------------------------------------------------------------------
\* State
\* ------------------------------------------------------------------------

VARIABLES
    hostfs,   \* the file system of the host a branch process runs on
    branch,   \* the Branch object: [name, rootPath, readonly]
    pool,     \* byteSlicePool of the branch process
    last,     \* what the branch answered to the last request it served
    served,   \* the number of requests the branch served
    client,   \* the transport Client: peers, conns, fingerprints, cert, redial, token
    sockets,  \* the network connections that are still referenced
    network,  \* per address: whether a listener accepts, the certificate it presents
    nodes,    \* per address: rufsServer.nodes of the process behind it
    thr,      \* per caller thread: its position in SendRequest and its locals
    result,   \* what the last call of the client returned to its caller
    trust,    \* per peer: how its stored fingerprint came about
    credit,   \* the number of calls of the client that may still begin
    srv,      \* what the RPC server answered to the last request dispatched
    tree,     \* the Tree: mapping tree, peers of its client, branch and mapping lists
    remote,   \* per branch behind the tree: its host file system, its read-only flag
    tlast,    \* what the last call of the tree did and returned
    tcount,   \* the number of read, write and list calls of the tree
    refresh,  \* the call of Tree.Refresh that is under way: its position and locals;
              \* per caller where several callers refresh at the same time
    treeLock, \* Tree.treeLock: the caller that holds it for writing, the callers that read
    callers   \* per caller of a method of the tree: the method and its position in it;
              \* per goroutine of the RPC server of a branch: its request and position

bvars == <<hostfs, branch, pool, last, served>>
tvars == <<client, sockets, network, nodes, thr, result, trust, credit, srv>>
lvars == <<treeLock, callers>>
trvars == <<tree, remote, tlast, tcount, refresh, treeLock, callers>>
vars == <<hostfs, branch, pool, last, served,
          client, sockets, network, nodes, thr, result, trust, credit, srv,
          tree, remote, tlast, tcount, refresh, treeLock, callers>>

\* The host directory tree a branch starts on: the exported folder /r and a
\* sibling folder /rx that is not exported.
InitialHost ==
    (<<>> :> DirEntry) @@ (<<cR>> :> DirEntry) @@ (<<cR, cF>> :> FileEntry(<<1>>))
    @@ (<<cRX>> :> DirEntry) @@ (<<cRX, cF>> :> FileEntry(<<1>>))

NoRequest ==
    [a |-> "", api |-> "", p |-> <<>>, name |-> <<>>, o |-> 0, err |-> "", touched |-> {},
     resolved |-> FALSE]

\* The nodes of the network, the address each one listens on, the
\* certificates a node may be started with and the callers of one Client
PeerNames == {"A", "B"}
AddrOf(n) == "host" \o n
Addrs == {AddrOf(n) : n \in PeerNames}
Certs == {"cert1", "cert2"}
Threads == {1, 2}
MaxAttempts == 3

\* The secret of the network and the name of a pure client (NewClient)
Secret == <<"s">>
ClientName == <<>>

MaxCalls == 5
MaxConcCalls == 3
NoResult == [op |-> "", node |-> "", type |-> "", detail |-> "", ok |-> FALSE,
             calls |-> 0, fp |-> ""]
IdleThread ==
    [pc |-> "idle", op |-> "", node |-> "", arg |-> "", fparg |-> "", laddr |-> "",
     sock |-> 0, err |-> "", resp |-> <<>>, rerr |-> NilError,
     calls |-> 0, temp |-> FALSE]
NoAnswer == [method |-> "", addr |-> "", request |-> <<>>, answer |-> Answer(<<>>, "", FALSE)]

\* NewClient: empty maps, no redial in progress
NewClient(secret, hasCert) ==
    [token |-> NodeToken(ClientName, secret), peers |-> EmptyMap, conns |-> EmptyMap,
     fingerprints |-> EmptyMap, cert |-> hasCert, redial |-> FALSE]

\* The branches a tree may be given, in the order in which they are added,
\* the certificate their nodes present, and the paths of the mappings
TreeBranches == {"b1", "b2"}
BranchOrder == <<"b1", "b2">>
RemoteCert == "cert1"
MapDirs == {<<>>, <<cD>>}
MaxMappings == 2
MaxTreeOps == 2

\* NewTree: no branch, no mapping.  peers are the names the client of the
\* tree has registered, each with the fingerprint it expects.
NewTree ==
    [root |-> (<<>> :> <<>>), peers |-> EmptyMap, branches |-> <<>>, branchesAll |-> <<>>,
     mapping |-> <<>>, mappingAll |-> <<>>]

\* The hosts of the branches: on each the root /r of a Branch
RemoteHost(b) ==
    IF b = "b1"
    THEN (<<>> :> DirEntry) @@ (<<cR>> :> DirEntry)
         @@ (<<cR, cF>> :> FileEntry(<<1>>))
    ELSE (<<>> :> DirEntry) @@ (<<cR>> :> DirEntry)
         @@ (<<cR, cF>> :> FileEntry(<<2>>))
         @@ (<<cR, cD>> :> DirEntry)
         @@ (<<cR, cD, cF>> :> FileEntry(<<2, 2>>))

\* No call of Tree.Refresh is under way
NoRefresh == [pc |-> "idle", mappings |-> <<>>, old |-> (<<>> :> <<>>)]

NoTreeOp ==
    [op |-> "", args |-> <<>>, err |-> NilError, n |-> 0, ok |-> FALSE, p |-> <<>>,
     dirs |-> <<>>, fis |-> <<>>, sent |-> <<>>, log |-> <<>>,
     pipe |-> [reader |-> FALSE, writer |-> FALSE],
     call |-> [pings |-> <<>>, start |-> NewTree, again |-> FALSE]]

\* No tree: nothing is added to it and nobody calls it
\* No caller is in a method of the tree
LockQuiet ==
    /\ treeLock = [writer |-> 0, waiting |-> {}, readers |-> <<>>]
    /\ callers = <<>>

TreeQuiet ==
    /\ tree = NewTree
    /\ remote = [b \in TreeBranches |-> [fs |-> RemoteHost(b), readonly |-> FALSE]]
    /\ tlast = NoTreeOp
    /\ refresh = NoRefresh
    /\ LockQuiet
    /\ tcount = 0

\* No transport: no node is started and nobody calls the client
TransportQuiet ==
    /\ client = NewClient(Secret, FALSE)
    /\ sockets = EmptyMap
    /\ network = [a \in Addrs |-> [listening |-> FALSE, cert |-> ""]]
    /\ nodes = [a \in Addrs |-> EmptyMap]
    /\ thr = [t \in Threads |-> IdleThread]
    /\ result = NoResult
    /\ trust = [n \in PeerNames |-> "none"]
    /\ credit = 0
    /\ srv = NoAnswer

\* What is kept of a served request
Served(api, ctrl, r) ==
    [a |-> ctrl.a, api |-> api, p |-> ctrl.p, name |-> ctrl.name, o |-> ctrl.o,
     err |-> r.err, touched |-> r.touched, resolved |-> r.resolved]

\* The model's bound on the host file system
WithinBounds(fs) ==
    /\ Cardinality(DOMAIN fs) <= MaxEntries + 1
    /\ \A q \in DOMAIN fs : Len(fs[q].data) <= MaxFileLen

\* NewBranch: the root path is absolute and clean, the flag comes from the
\* configuration.
BranchInit ==
    /\ hostfs = InitialHost
    /\ branch \in {[name |-> "b", rootPath |-> <<cR>>, readonly |-> ro] : ro \in BOOLEAN}
    /\ pool = {}
    /\ last = NoRequest
    /\ served = 0
    /\ TransportQuiet
    /\ TreeQuiet

\* Request inputs: paths inside the root, paths that climb out of it with
\* "..", and paths that come back
ReqPaths ==
    {<<>>, <<cF>>, <<cD, cF>>, <<DotDot>>, <<DotDot, cR, cF>>,
     <<DotDot, cRX>>, <<DotDot, cRX, cF>>, <<cD, DotDot, DotDot, cRX, cF>>}
ReqNames == {<<>>, <<cF>>, <<DotDot>>, <<Star>>}
Payloads == {<<1>>}
Offsets == {0, 1}

\* A request arriving at the data handler of the branch
Serve(ctrl, data) ==
    \E got \in PoolGet(pool) :
      \E h \in {requestHandler(branch, hostfs, pool, ctrl, data, got)} :
        /\ served < MaxRequests
        /\ served' = served + 1
        /\ WithinBounds(h.res.fs)
        /\ hostfs' = h.res.fs
        /\ pool' = h.pool
        /\ last' = Served("handler", ctrl, h.res)
        /\ UNCHANGED <<branch, tvars, trvars>>

ReqDir ==
    \E p \in ReqPaths, rec \in BOOLEAN :
        Serve([Ctrl("dir", p) EXCEPT !.r = rec], <<>>)

ReqRead ==
    \E p \in ReqPaths, o \in Offsets :
        Serve([Ctrl("read", p) EXCEPT !.o = o, !.s = ReadBufferSize], <<>>)

ReqWrite ==
    \E p \in ReqPaths, o \in Offsets, data \in Payloads :
        Serve([Ctrl("write", p) EXCEPT !.o = o], data)

ReqItemOp ==
    \E p \in ReqPaths, act \in {"mkdir", "rename", "delete"},
       nm \in ReqNames, nn \in {<<>>, <<cD>>} :
        /\ (act # "rename" => nn = <<>>)
        /\ Serve([Ctrl("itemop", p) EXCEPT !.action = act, !.name = nm, !.newname = nn],
                 <<>>)

\* The local API Branch.WriteFileFromBuffer
LocalWriteFromBuffer ==
    \E p \in ReqPaths, src \in {[chunks |-> <<>>, tail |-> <<>>],
                                [chunks |-> <<<<1>>>>, tail |-> <<>>]},
       got \in PoolGet(pool) :
      \E r \in {BranchWriteFileFromBuffer(branch, hostfs, p, src, got)} :
        /\ served < MaxRequests
        /\ served' = served + 1
        /\ WithinBounds(r.fs)
        /\ hostfs' = r.fs
        /\ pool' = IF checkReadOnly(branch) # "" THEN pool ELSE {got}
        /\ last' = Served("WriteFileFromBuffer", Ctrl("write", p), r)
        /\ UNCHANGED <<branch, tvars, trvars>>

BranchNext == ReqDir \/ ReqRead \/ ReqWrite \/ ReqItemOp \/ LocalWriteFromBuffer

SpecBranch == BranchInit /\ [][BranchNext]_vars

\* ------------------------------------------------------------------------
\* Transport: nodes, connections and the callers of one Client
\* ------------------------------------------------------------------------

\* A connection that neither the connection map nor a caller refers to can
\* not be used or closed by the client any more.  Of these connections the
\* state keeps one entry, under the key 0, as long as one of them is open:
\* nothing in the client closes a connection.
Lost == [addr |-> "", cert |-> "", open |-> TRUE]

Collect(socks, cl, th) ==
    LET used == {cl.conns[n] : n \in DOMAIN cl.conns} \cup {th[t].sock : t \in DOMAIN th}
        lost == {i \in DOMAIN socks \ used : socks[i].open}
    IN [i \in (DOMAIN socks \cap used) \cup (IF lost # {} THEN {0} ELSE {}) |->
          IF i = 0 THEN Lost ELSE socks[i]]

FreshSock(socks) == CHOOSE i \in 1..(Cardinality(DOMAIN socks) + 1) : i \notin DOMAIN socks

\* What a caller gets back from a call
ResultOf(l, resp, e, fp) ==
    [op |-> l.op, node |-> l.node, type |-> e.type, detail |-> e.detail,
     ok |-> resp # <<>>, calls |-> l.calls, fp |-> fp]

\* A caller goes on with its call
Go(th) == [th |-> th, ret |-> result, trust |-> trust]

\* The call of thread t returns to its caller
Finish(t, th, resp, e, fp) ==
    [th |-> [th EXCEPT ![t] = IdleThread], ret |-> ResultOf(th[t], resp, e, fp),
     trust |-> trust]

\* SendRequest returns: SendData hands the result on, SendPing still has to
\* read the fingerprint and to run its deferred cleanup
Return(t, th, resp, e) ==
    IF th[t].op = "ping"
    THEN Go([th EXCEPT ![t] = [@ EXCEPT !.pc = "pingret", !.resp = resp, !.rerr = e,
                                        !.sock = 0, !.err = "", !.laddr = ""]])
    ELSE Finish(t, th, resp, e, "")

\* The nodes of the configuration
Names == {n \in PeerNames : AddrOf(n) \in DOMAIN network}

\* All nodes run with TLS or all run without it, as the client does
StartCerts == IF client.cert THEN Certs ELSE {""}

\* A caller is about to dial or to call.  What happens to a node or to a
\* connection reaches the client only through these two steps, so the
\* nodes and the connections change when one of them is next.
AboutToDial == \E t \in DOMAIN thr : thr[t].pc = "dial"
AboutToCall(i) == \E t \in DOMAIN thr : thr[t].pc = "call" /\ thr[t].sock = i
AboutToUseNetwork == AboutToDial \/ \E i \in DOMAIN sockets : AboutToCall(i)

\* RufsNode.Start: the listener accepts, the node is known to the RPC server
NodeStart ==
    \E n \in Names, c \in StartCerts :
        /\ AboutToUseNetwork
        /\ ~network[AddrOf(n)].listening
        /\ network' = [network EXCEPT ![AddrOf(n)] = [listening |-> TRUE, cert |-> c]]
        /\ nodes' = [nodes EXCEPT ![AddrOf(n)] =
                        MapPut(@, n, [secret |-> Secret, handler |-> TRUE])]
        /\ UNCHANGED <<client, sockets, thr, result, trust, credit, srv, bvars, trvars>>

\* RufsNode.Shutdown: the listener is closed and the node is unknown to the
\* RPC server; connections that were accepted before stay open
NodeShutdown ==
    \E n \in Names :
        /\ AboutToUseNetwork
        /\ network[AddrOf(n)].listening
        /\ network' = [network EXCEPT ![AddrOf(n)] = [listening |-> FALSE, cert |-> ""]]
        /\ nodes' = [nodes EXCEPT ![AddrOf(n)] = MapDelete(@, n)]
        /\ UNCHANGED <<client, sockets, thr, result, trust, credit, srv, bvars, trvars>>

\* A connection is closed from outside the client
ConnClosed ==
    \E i \in DOMAIN sockets :
        /\ AboutToCall(i)
        /\ sockets[i].open
        /\ sockets' = [sockets EXCEPT ![i].open = FALSE]
        /\ UNCHANGED <<client, network, nodes, thr, result, trust, credit, srv, bvars, trvars>>

\* The fingerprints a peer may be registered with and what the data
\* handler of a node returns
RegFingerprints == {""} \cup {fingerprint(c) : c \in Certs}
HandlerAck == [res |-> <<1>>, err |-> ""]

\* One step of a caller: the client and the caller's locals change, the
\* connections follow
Step(cl, socks, out) ==
    /\ client' = cl
    /\ thr' = out.th
    /\ result' = out.ret
    /\ trust' = out.trust
    /\ sockets' = Collect(socks, cl, out.th)
    /\ UNCHANGED <<credit, network, nodes, srv, bvars, trvars>>

\* The first step of a call
FirstStep(cl, socks, out) ==
    /\ credit > 0
    /\ credit' = credit - 1
    /\ client' = cl
    /\ thr' = out.th
    /\ result' = out.ret
    /\ trust' = out.trust
    /\ sockets' = Collect(socks, cl, out.th)
    /\ UNCHANGED <<network, nodes, srv, bvars, trvars>>

Begin(t, op, n, rpc, fp, pc) ==
    [thr EXCEPT ![t] = [IdleThread EXCEPT !.pc = pc, !.op = op, !.node = n,
                                          !.arg = rpc, !.fparg = fp]]

\* A call that goes on after its first step: the last result is forgotten
Started(th) == [th |-> th, ret |-> NoResult, trust |-> trust]

\* How the stored fingerprint of a peer came about: "given" and "open" by a
\* registration with or without a fingerprint, "first" by the first
\* connection after an open registration, "none" without a registration
Trusting(out, n, how) == [out EXCEPT !.trust = [@ EXCEPT ![n] = how]]

\* RegisterPeer, the checks before the lock is taken
CallRegisterPeer ==
    \E t \in DOMAIN thr, n \in Names, fp \in RegFingerprints :
        LET rpc == AddrOf(n) IN
        /\ thr[t].pc = "idle"
        /\ IF n \in DOMAIN client.peers
           THEN FirstStep(client, sockets,
                          Finish(t, Begin(t, "register", n, rpc, fp, "idle"), <<>>,
                                 NodeError("Peer already registered", n, FALSE), ""))
           ELSE IF rpc = ""
           THEN FirstStep(client, sockets,
                          Finish(t, Begin(t, "register", n, rpc, fp, "idle"), <<>>,
                                 NodeError("RPC interface must not be empty", "", FALSE), ""))
           ELSE FirstStep(client, sockets,
                          Started(Begin(t, "register", n, rpc, fp, "register")))

\* RegisterPeer, the locked part
DoRegisterPeer ==
    \E t \in DOMAIN thr :
        LET l == thr[t] IN
        /\ l.pc = "register"
        /\ Step([client EXCEPT !.peers = MapPut(@, l.node, l.arg),
                               !.conns = MapDelete(@, l.node),
                               !.fingerprints = MapPut(@, l.node, l.fparg)],
                sockets,
                Trusting(Finish(t, thr, <<>>, NilError, ""), l.node,
                         IF l.fparg = "" THEN "open" ELSE "given"))

\* RemovePeer
CallRemovePeer ==
    \E t \in DOMAIN thr, n \in Names :
        /\ thr[t].pc = "idle"
        /\ FirstStep([client EXCEPT !.peers = MapDelete(@, n),
                                    !.conns = MapDelete(@, n),
                                    !.fingerprints = MapDelete(@, n)],
                     sockets,
                     Trusting(Finish(t, Begin(t, "remove", n, "", "", "idle"), <<>>,
                                     NilError, ""), n, "none"))

\* SendPing, the check whether the peer has to be added for the call
CallSendPing ==
    \E t \in DOMAIN thr, n \in Names, known \in BOOLEAN :
        LET rpc == IF known THEN "" ELSE AddrOf(n) IN
        /\ thr[t].pc = "idle"
        /\ IF n \notin DOMAIN client.peers /\ rpc # ""
           THEN FirstStep(client, sockets, Started(Begin(t, "ping", n, rpc, "", "pingreg")))
           ELSE FirstStep(client, sockets, Started(Begin(t, "ping", n, "", "", "peers")))

\* SendPing, the temporary registration
PingRegister ==
    \E t \in DOMAIN thr :
        LET l == thr[t] IN
        /\ l.pc = "pingreg"
        /\ Step([client EXCEPT !.peers = MapPut(@, l.node, l.arg)], sockets,
                Go([thr EXCEPT ![t] = [l EXCEPT !.pc = "peers", !.arg = "", !.temp = TRUE]]))

\* SendPing after SendRequest returned: the fingerprint is read and the
\* deferred function removes a peer that was added for the call
PingReturn ==
    \E t \in DOMAIN thr :
        LET l == thr[t]
            ok == l.resp # <<>> /\ l.rerr = NilError
            fp == IF ok THEN MapGet(client.fingerprints, l.node, "") ELSE ""
        IN
        /\ l.pc = "pingret"
        /\ Step(IF l.temp
                THEN [client EXCEPT !.peers = MapDelete(@, l.node),
                                    !.conns = MapDelete(@, l.node),
                                    !.fingerprints = MapDelete(@, l.node)]
                ELSE client,
                sockets,
                Trusting(Finish(t, thr, IF ok THEN l.resp ELSE <<>>, l.rerr, fp), l.node,
                         IF l.temp THEN "none" ELSE trust[l.node]))

\* SendData, the check for the peer
CallSendData ==
    \E t \in DOMAIN thr, n \in Names :
        /\ thr[t].pc = "idle"
        /\ IF n \notin DOMAIN client.peers
           THEN FirstStep(client, sockets,
                          Finish(t, Begin(t, "data", n, "", "", "idle"), <<>>,
                                 NodeError("Unknown peer", n, FALSE), ""))
           ELSE FirstStep(client, sockets, Started(Begin(t, "data", n, "", "", "peers")))

\* SendRequest, the address of the peer is looked up
LookupPeer ==
    \E t \in DOMAIN thr :
        LET l == thr[t] IN
        /\ l.pc = "peers"
        /\ IF l.node \in DOMAIN client.peers
           THEN Step(client, sockets,
                     Go([thr EXCEPT ![t] = [l EXCEPT !.pc = "conns",
                                                 !.laddr = client.peers[l.node]]]))
           ELSE Step(client, sockets,
                     Return(t, thr, <<>>, NodeError(ErrUnknownTarget, l.node, FALSE)))

\* SendRequest, the connection of the peer is looked up
LookupConn ==
    \E t \in DOMAIN thr :
        LET l == thr[t] IN
        /\ l.pc = "conns"
        /\ IF l.node \in DOMAIN client.conns
           THEN Step(client, sockets,
                     Go([thr EXCEPT ![t] = [l EXCEPT !.pc = "call",
                                                 !.sock = client.conns[l.node]]]))
           ELSE Step(client, sockets, Go([thr EXCEPT ![t] = [l EXCEPT !.pc = "dial"]]))

\* SendRequest, net.DialTimeout and, for a client with a certificate, the
\* TLS handshake in which the server presents its certificate; rfp is the
\* fingerprint of the certificate the connection was established with
Dial ==
    \E t \in DOMAIN thr :
        LET l == thr[t]
            i == FreshSock(sockets)
        IN
        /\ l.pc = "dial"
        /\ IF ~network[l.laddr].listening
           THEN Step(client, sockets,
                     Return(t, thr, <<>>, handleError(TRUE, "connection refused")))
           ELSE Step(client,
                     MapPut(sockets, i, [addr |-> l.laddr, cert |-> network[l.laddr].cert,
                                         open |-> TRUE]),
                     Go([thr EXCEPT ![t] =
                         IF client.cert
                         THEN [l EXCEPT !.pc = "expected", !.sock = i]
                         ELSE [l EXCEPT !.pc = "store", !.sock = i]]))

\* SendRequest, the expected fingerprint is read and compared
ReadExpected ==
    \E t \in DOMAIN thr :
        LET l == thr[t]
            rfp == fingerprint(sockets[l.sock].cert)
            expected == MapGet(client.fingerprints, l.node, "")
        IN
        /\ l.pc = "expected"
        /\ IF expected = ""
           THEN Step(client, sockets, Go([thr EXCEPT ![t] = [l EXCEPT !.pc = "tofu"]]))
           ELSE IF untrusted(expected, rfp)
           THEN Step(client, sockets,
                     Return(t, thr, <<>>, NodeError(ErrUntrustedTarget, l.node, FALSE)))
           ELSE Step(client, sockets, Go([thr EXCEPT ![t] = [l EXCEPT !.pc = "store"]]))

\* SendRequest, the presented fingerprint is accepted and stored
StoreFingerprint ==
    \E t \in DOMAIN thr :
        LET l == thr[t] IN
        /\ l.pc = "tofu"
        /\ Step([client EXCEPT !.fingerprints =
                                   MapPut(@, l.node, fingerprint(sockets[l.sock].cert))],
                sockets,
                Trusting(Go([thr EXCEPT ![t] = [l EXCEPT !.pc = "store"]]), l.node,
                         IF trust[l.node] = "open" THEN "first" ELSE trust[l.node]))

\* SendRequest, the connection is stored for reuse
StoreConn ==
    \E t \in DOMAIN thr :
        LET l == thr[t] IN
        /\ l.pc = "store"
        /\ Step([client EXCEPT !.conns = MapPut(@, l.node, l.sock)], sockets,
                Go([thr EXCEPT ![t] = [l EXCEPT !.pc = "call"]]))

\* What conn.Call returns on a closed connection: each of the three errors
\* for a single caller, io.EOF where several callers interleave
CallErrors == IF Cardinality(DOMAIN thr) = 1 THEN ClosedErrors ELSE {EOF}

\* SendRequest, conn.Call: a closed connection fails, an open one reaches
\* the RPC server of the process behind it
Call ==
    \E t \in DOMAIN thr, ce \in CallErrors :
        LET l == thr[t]
            so == sockets[l.sock]
            request == [target |-> l.node, token |-> client.token]
            ans == IF l.op = "ping" THEN ServerPing(nodes[so.addr], request)
                   ELSE ServerData(nodes[so.addr], request, HandlerAck)
        IN
        /\ l.pc = "call"
        /\ IF so.open
           THEN Step(client, sockets,
                     Go([thr EXCEPT ![t] = [l EXCEPT !.pc = "after", !.err = ans.err,
                                                 !.resp = ans.resp, !.calls = @ + 1]]))
           ELSE Step(client, sockets,
                     Go([thr EXCEPT ![t] = [l EXCEPT !.pc = "after", !.err = ce,
                                                 !.resp = <<>>, !.calls = @ + 1]]))

\* SendRequest after the call: evict and retry, or reset the redial flag
\* and return
AfterCall ==
    \E t \in DOMAIN thr :
        LET l == thr[t] IN
        /\ l.pc = "after"
        /\ IF retryCall(client.redial, l.err)
           THEN /\ l.calls < MaxAttempts
                /\ Step([client EXCEPT !.conns = MapDelete(@, l.node), !.redial = TRUE],
                        sockets,
                        Go([thr EXCEPT ![t] = [l EXCEPT !.pc = "peers",
                                                    !.sock = 0, !.err = "", !.resp = <<>>,
                                                    !.laddr = ""]]))
           ELSE Step([client EXCEPT !.redial = FALSE], sockets,
                     Return(t, thr, l.resp, handleError(FALSE, l.err)))

\* A configuration: the callers, the nodes, the calls and whether the
\* client has a certificate
InitFor(cf) ==
    /\ client = NewClient(Secret, cf.cert)
    /\ sockets = EmptyMap
    /\ network = [a \in {AddrOf(n) : n \in cf.names} |-> [listening |-> FALSE, cert |-> ""]]
    /\ nodes = [a \in {AddrOf(n) : n \in cf.names} |-> EmptyMap]
    /\ thr = [t \in cf.threads |-> IdleThread]
    /\ result = NoResult
    /\ trust = [n \in PeerNames |-> "none"]
    /\ credit = cf.calls
    /\ srv = NoAnswer
    /\ hostfs = InitialHost
    /\ branch = [name |-> "b", rootPath |-> <<cR>>, readonly |-> FALSE]
    /\ pool = {}
    /\ last = NoRequest
    /\ served = 0
    /\ TreeQuiet

\* One caller of a client that talks to every node
NodeInit ==
    \E c \in BOOLEAN :
        InitFor([threads |-> {1}, names |-> PeerNames, calls |-> MaxCalls, cert |-> c])

\* Every caller, on a client with a certificate that talks to one node
ConcInit ==
    InitFor([threads |-> Threads, names |-> {"A"}, calls |-> MaxConcCalls, cert |-> TRUE])

NodeNext ==
    \/ NodeStart \/ NodeShutdown \/ ConnClosed
    \/ CallRegisterPeer \/ DoRegisterPeer \/ CallRemovePeer
    \/ CallSendPing \/ PingRegister \/ PingReturn \/ CallSendData
    \/ LookupPeer \/ LookupConn \/ Dial \/ ReadExpected \/ StoreFingerprint
    \/ StoreConn \/ Call \/ AfterCall

SpecNode == NodeInit /\ [][NodeNext]_vars

SpecNodeConc == ConcInit /\ [][NodeNext]_vars

\* ------------------------------------------------------------------------
\* The RPC server of one process and the requests that reach it
\* ------------------------------------------------------------------------

\* The secrets nodes are created with, the names callers give themselves
\* and the auth strings they send
Secrets == {<<"s">>, <<"n", "s">>}
CallerNames == {<<>>, <<"n">>}
Auths == {Sum512Hex(c \o k) : c \in CallerNames, k \in Secrets} \cup {<<"123">>}
Requests ==
    {[target |-> n, token |-> [NodeName |-> c, NodeAuth |-> a]] :
        n \in PeerNames, c \in CallerNames, a \in Auths}
HandlerOutcomes == {HandlerAck, [res |-> <<>>, err |-> "Testerror"]}
ServerAddr == AddrOf("A")

\* RufsNode.Start in the process: the node enters rufsServer.nodes
ServerStartNode ==
    \E n \in PeerNames, k \in Secrets, h \in BOOLEAN :
        /\ n \notin DOMAIN nodes[ServerAddr]
        /\ nodes' = [nodes EXCEPT ![ServerAddr] = MapPut(@, n, [secret |-> k, handler |-> h])]
        /\ UNCHANGED <<client, sockets, network, thr, result, trust, credit, srv, bvars, trvars>>

\* RufsNode.Shutdown in the process: the node leaves rufsServer.nodes
ServerShutdownNode ==
    \E n \in DOMAIN nodes[ServerAddr] :
        /\ nodes' = [nodes EXCEPT ![ServerAddr] = MapDelete(@, n)]
        /\ UNCHANGED <<client, sockets, network, thr, result, trust, credit, srv, bvars, trvars>>

\* A Ping request is dispatched
ServePing ==
    \E rq \in Requests :
        /\ srv' = [method |-> "Ping", addr |-> ServerAddr, request |-> rq,
                   answer |-> ServerPing(nodes[ServerAddr], rq)]
        /\ UNCHANGED <<client, sockets, network, nodes, thr, result, trust, credit, bvars, trvars>>

\* A Data request is dispatched
ServeData ==
    \E rq \in Requests, h \in HandlerOutcomes :
        /\ srv' = [method |-> "Data", addr |-> ServerAddr, request |-> rq,
                   answer |-> ServerData(nodes[ServerAddr], rq, h)]
        /\ UNCHANGED <<client, sockets, network, nodes, thr, result, trust, credit, bvars, trvars>>

ServerInit ==
    /\ TransportQuiet
    /\ TreeQuiet
    /\ hostfs = InitialHost
    /\ branch = [name |-> "b", rootPath |-> <<cR>>, readonly |-> FALSE]
    /\ pool = {}
    /\ last = NoRequest
    /\ served = 0

ServerNext == ServerStartNode \/ ServerShutdownNode \/ ServePing \/ ServeData

SpecServer == ServerInit /\ [][ServerNext]_vars

\* ------------------------------------------------------------------------
\* Tree client (type Tree, type treeItem).  The mapping tree is a function
\* from the path of an item, counted from the root item <<>>, to the
\* branches mapped at the item: a sequence of [branch, writable] in the
\* order of the AddMapping calls (remoteBranches, remoteBranchWriting).
\* ------------------------------------------------------------------------

ErrNotWritable ==
    "All applicable branches for the requested path were mounted as not writable"

\* An error that is no node.Error (fmt.Errorf)
PlainError(text) == [type |-> "", detail |-> text, isNotExist |-> FALSE]

\* IsEOF: io.EOF itself or a node.Error with the detail "EOF"
IsEOF(e) == e.detail = EOF

\* createMappingPath: the components between the slashes, empty ones dropped
createMappingPath(p) ==
    LET NotEmpty(c) == c # <<>> IN SelectSeq(p, NotEmpty)

\* treeItem.addMapping, the branch joins the branches of the item: the order
\* in which the branches were added is kept
prependBranch(branches, b) == <<b>> \o branches

appendBranch(branches, b) == Append(branches, b)

\* treeItem.addMapping, called on the item at the path item
RECURSIVE addMapping(_, _, _, _, _)
addMapping(root, item, mappingPath, branchName, writable) ==
    LET Descend(child) ==
            addMapping(IF child \in DOMAIN root THEN root ELSE (child :> <<>>) @@ root,
                       child, Tail(mappingPath), branchName, writable)
    IN
    IF mappingPath # <<>>
    THEN Descend(Append(item, Head(mappingPath)))
    ELSE [root EXCEPT ![item] = appendBranch(@, [branch |-> branchName, writable |-> writable])]

\* treeItem.findPathBranches, the names of the children in the order in
\* which they are visited: sort.Strings
unsortedChildNames(S) == Reverse(SortStrings(S))

sortedChildNames(S) == SortStrings(S)

\* treeItem.findPathBranches: the visits in the order in which the visitor
\* is called, each with the item, the tree path, the rest of the path that
\* is left for the branch, and the branches of the item
RECURSIVE findPathBranches(_, _, _, _, _)
findPathBranches(root, item, treePath, branchPath, recursive) ==
    LET Child(n) ==
            findPathBranches(root, Append(item, n), JoinAbs(treePath, <<n>>),
                             IF branchPath # <<>> THEN Tail(branchPath) ELSE branchPath,
                             recursive)
        All(childNames) == Flatten([i \in 1..Len(childNames) |-> Child(childNames[i])])
    IN
    <<[item |-> item, treePath |-> treePath, branchPath |-> branchPath,
       branches |-> root[item]]>>
    \o (IF branchPath # <<>>
        THEN IF Append(item, Head(branchPath)) \in DOMAIN root
             THEN Child(Head(branchPath))
             ELSE <<>>
        ELSE IF recursive
             THEN All(sortedChildNames({Last(q) : q \in Children(root, item)}))
             ELSE <<>>)

\* The calls of a visitor that loops over the branches of every visit
Targets(visits) ==
    Flatten([i \in 1..Len(visits) |->
               [j \in 1..Len(visits[i].branches) |->
                   [branch |-> visits[i].branches[j].branch,
                    writable |-> visits[i].branches[j].writable,
                    treePath |-> visits[i].treePath,
                    branchPath |-> visits[i].branchPath]]])

\* The branches behind the tree: each is a Branch with the root /r on a
\* host of its own, reached through Client.SendData.  What the transport
\* does on the way is given by fault: "" delivers the request to the data
\* handler of the branch, "down" is a refused dial, "eof" a connection
\* that is closed again during the retry.
Faults == {"", "down", "eof"}

BranchOf(rem, b) == [name |-> b, rootPath |-> <<cR>>, readonly |-> rem[b].readonly]

\* What requestHandler encodes as the response of an action
Response(a, r) ==
    CASE a = "dir" -> [dirs |-> r.dirs, fis |-> r.fis]
      [] a = "read" -> [n |-> r.n, data |-> r.data]
      [] a = "write" -> [n |-> r.n]
      [] OTHER -> [ok |-> r.ok]

\* Client.SendData to the branch b behind the tree; handled is what the
\* case of requestHandler for the action of ctrl does with the request
TreeSendData(rem, fault, b, ctrl, data, handled) ==
    LET Reply(fs, ans) == [err |-> handleError(FALSE, ans.err), res |-> ans.resp, fs |-> fs]
        Handled(r) ==
            Reply(r.fs,
                  ServerData(MapPut(EmptyMap, b, [secret |-> Secret, handler |-> TRUE]),
                             [target |-> b, token |-> NodeToken(ClientName, Secret)],
                             [res |-> Response(ctrl.a, r), err |-> r.err]))
    IN
    CASE fault = "down" ->
           [err |-> handleError(TRUE, "connection refused"), res |-> <<>>, fs |-> rem[b].fs]
      [] fault = "eof" ->
           [err |-> handleError(FALSE, EOF), res |-> <<>>, fs |-> rem[b].fs]
      [] OTHER ->
           Only({Handled(h.res) : h \in {handled}})

\* What is kept of a call of SendData
Sent(tg, ctrl, data, ans) ==
    [branch |-> tg.branch, treePath |-> tg.treePath, ctrl |-> ctrl, data |-> data,
     err |-> ans.err, res |-> ans.res]

\* A read that leaves the buffer of the caller as it was
keep(p, buf) == p

\* copy(p, buf) in Tree.ReadFile
copy(p, buf) == [i \in 1..Len(p) |-> IF i <= Len(buf) THEN buf[i] ELSE p[i]]

\* The path a visitor asks a branch for: path.Join(path.Join(branchPath...), file)
branchFile(branchPath, file) == JoinRel(JoinRel(<<>>, branchPath), <<file>>)

\* A read that asks every branch, whatever the earlier ones answered
tryAll(success) == TRUE

\* Tree.ReadFile: the test before a branch is asked
tryNext(success) == ~success

\* Tree.ReadFile, one branch of a visit
readOne(tg, acc, faults, file, offset) ==
    LET Got(ctrl, ans) ==
            [acc EXCEPT !.err = ans.err,
                        !.n = IF ans.err = NilError THEN ans.res.n ELSE @,
                        !.p = IF ans.err = NilError THEN copy(@, ans.res.data) ELSE @,
                        !.success = (ans.err = NilError \/ IsEOF(ans.err)),
                        !.sent = Append(@, Sent(tg, ctrl, <<>>, ans))]
        Send(ctrl) ==
            Only({Got(ctrl, ans) :
                    ans \in {TreeSendData(acc.rem, faults[tg.branch], tg.branch, ctrl, <<>>,
                                          handleRead(BranchOf(acc.rem, tg.branch),
                                             acc.rem[tg.branch].fs, {}, ctrl, <<>>,
                                             Zeros(ReadBufferSize)))}})
    IN
    IF tryNext(acc.success)
    THEN Send([Ctrl("read", branchFile(tg.branchPath, file))
                  EXCEPT !.o = offset, !.s = Len(acc.p)])
    ELSE acc

RECURSIVE readVisits(_, _, _, _, _)
readVisits(targets, acc, faults, file, offset) ==
    IF targets = <<>> THEN acc
    ELSE readVisits(Tail(targets), readOne(Head(targets), acc, faults, file, offset),
                    faults, file, offset)

\* Tree.ReadFile into the buffer p
TreeReadFile(root, rem, faults, spath, p, offset) ==
    readVisits(Targets(findPathBranches(root, <<>>, SplitDir(spath),
                                        createMappingPath(SplitDir(spath)), FALSE)),
               [n |-> 0, p |-> p, success |-> FALSE, sent |-> <<>>, rem |-> rem,
                err |-> NodeError(ErrRemoteAction, ErrNotExist, TRUE)],
               faults, SplitFile(spath), offset)

\* A write that goes to every branch, whatever its mapping says
skipNever(writable) == FALSE

\* Tree.WriteFile: the test for a branch that is ignored
skipWrite(writable) == ~writable

\* Tree.WriteFile, one branch of a visit
writeOne(tg, acc, faults, file, p, offset) ==
    LET Got(ctrl, ans) ==
            [acc EXCEPT !.totalCount = @ + 1,
                        !.err = ans.err,
                        !.n = IF ans.err = NilError THEN ans.res.n ELSE @,
                        !.rem = [@ EXCEPT ![tg.branch].fs = ans.fs],
                        !.sent = Append(@, Sent(tg, ctrl, p, ans))]
        Send(ctrl) ==
            Only({Got(ctrl, ans) :
                    ans \in {TreeSendData(acc.rem, faults[tg.branch], tg.branch, ctrl, p,
                                          handleWrite(BranchOf(acc.rem, tg.branch),
                                             acc.rem[tg.branch].fs, {}, ctrl, p,
                                             Zeros(ReadBufferSize)))}})
    IN
    IF acc.err # NilError THEN acc
    ELSE IF skipWrite(tg.writable)
    THEN [acc EXCEPT !.totalCount = @ + 1, !.ignoreCount = @ + 1]
    ELSE Send([Ctrl("write", branchFile(tg.branchPath, file)) EXCEPT !.o = offset])

RECURSIVE writeVisits(_, _, _, _, _, _)
writeVisits(targets, acc, faults, file, p, offset) ==
    IF targets = <<>> THEN acc
    ELSE writeVisits(Tail(targets), writeOne(Head(targets), acc, faults, file, p, offset),
                     faults, file, p, offset)

\* Tree.WriteFile
TreeWriteFile(root, rem, faults, spath, p, offset) ==
    LET Check(acc) ==
            IF acc.err = NilError /\ acc.totalCount = acc.ignoreCount
            THEN [acc EXCEPT !.err = PlainError(ErrNotWritable)]
            ELSE acc
    IN Check(writeVisits(Targets(findPathBranches(root, <<>>, SplitDir(spath),
                                                  createMappingPath(SplitDir(spath)), FALSE)),
                         [n |-> 0, err |-> NilError, totalCount |-> 0, ignoreCount |-> 0,
                          sent |-> <<>>, rem |-> rem],
                         faults, SplitFile(spath), p, offset))

\* The entries of a listing with the branch they came from
Tagged(b, bfis) ==
    [i \in 1..Len(bfis) |-> [k \in 1..Len(bfis[i]) |-> [bfis[i][k] EXCEPT !.from = b]]]

\* A merge that takes every entry of the branch
allEntries(existing, bfi) == bfi

\* Tree.Dir: the entries of a branch whose names are not in the result yet
newEntries(existing, bfi) ==
    LET IsNew(fi) == \A k \in 1..Len(existing) : existing[k].name # fi.name
    IN SelectSeq(bfi, IsNew)

\* Tree.Dir: one directory of an answer, with its tree path td, is merged
\* into the overall result
mergeDir(acc, td, bfi) ==
    IF \E j \in 1..Len(acc.dirs) : acc.dirs[j] = td
    THEN [acc EXCEPT !.fis = [j \in 1..Len(acc.fis) |->
                                 IF acc.dirs[j] = td
                                 THEN acc.fis[j] \o newEntries(acc.fis[j], bfi)
                                 ELSE acc.fis[j]]]
    ELSE [acc EXCEPT !.dirs = Append(@, td), !.fis = Append(@, bfi)]

RECURSIVE mergeAnswer(_, _, _, _, _)
mergeAnswer(acc, treePath, bdirs, bfis, i) ==
    IF i > Len(bdirs) THEN acc
    ELSE mergeAnswer(mergeDir(acc, JoinAbs(treePath, bdirs[i]), bfis[i]),
                     treePath, bdirs, bfis, i + 1)

\* Tree.Dir, one branch of a visit of the first pass
dirOne(tg, acc, faults, ctrl) ==
    LET Listing(ans) ==
            IF ans.err # NilError THEN ans
            ELSE [ans EXCEPT !.res = [dirs |-> ans.res.dirs,
                                      fis |-> Tagged(tg.branch, ans.res.fis)]]
        Got(ans) ==
            IF ans.err # NilError
            THEN [acc EXCEPT !.err = ans.err, !.sent = Append(@, Sent(tg, ctrl, <<>>, ans))]
            ELSE mergeAnswer([acc EXCEPT !.sent = Append(@, Sent(tg, ctrl, <<>>, ans))],
                             tg.treePath, ans.res.dirs, ans.res.fis, 1)
    IN
    IF acc.err # NilError THEN acc
    ELSE Only({Got(Listing(ans)) :
                 ans \in {TreeSendData(acc.rem, faults[tg.branch], tg.branch,
                                       [ctrl EXCEPT !.p = JoinRel(<<>>, tg.branchPath)],
                                       <<>>,
                                       handleDir(BranchOf(acc.rem, tg.branch),
                                                 acc.rem[tg.branch].fs, {},
                                                 [ctrl EXCEPT
                                                    !.p = JoinRel(<<>>, tg.branchPath)],
                                                 <<>>, Zeros(ReadBufferSize)))}})

RECURSIVE dirVisits(_, _, _, _)
dirVisits(targets, acc, faults, ctrl) ==
    IF targets = <<>> THEN acc
    ELSE dirVisits(Tail(targets), dirOne(Head(targets), acc, faults, ctrl), faults, ctrl)

\* The entry of a mapping component that has no directory behind it
PseudoDir(n) == [name |-> n, size |-> 0, isDir |-> TRUE, sum |-> <<>>, from |-> ""]

\* Tree.Dir, a child of an item gets a directory entry of its own if no
\* entry of its name was found and its name matches the pattern
pseudoAlways(found, pat, n) == MatchString(pat, n)

pseudoNeeded(found, pat, n) == ~found /\ MatchString(pat, n)

\* Tree.Dir, the children of one item in the second pass; names is the
\* order in which the map of the children is iterated
RECURSIVE addPseudoDirs(_, _, _, _)
addPseudoDirs(acc, idx, names, pat) ==
    LET n == Head(names)
        found == \E k \in 1..Len(acc.fis[idx]) : acc.fis[idx][k].name = n
    IN
    IF names = <<>> THEN acc
    ELSE addPseudoDirs(IF pseudoNeeded(found, pat, n)
                       THEN [acc EXCEPT !.fis[idx] = Append(@, PseudoDir(n))]
                       ELSE acc,
                       idx, Tail(names), pat)

\* Tree.Dir, one visit of the second pass
pseudoVisit(root, v, acc, dir, pat, order) ==
    LET InItem(n) == Append(v.item, n) \in DOMAIN root
        Index(a) == CHOOSE j \in 1..Len(a.dirs) :
                        /\ a.dirs[j] = v.treePath
                        /\ \A k \in (j + 1)..Len(a.dirs) : a.dirs[k] # v.treePath
        Fill(a) == addPseudoDirs(a, Index(a), SelectSeq(order, InItem), pat)
    IN
    IF ~HasPrefix(PathStr(v.treePath), dir) THEN acc
    ELSE IF \E j \in 1..Len(acc.dirs) : acc.dirs[j] = v.treePath
    THEN Fill(acc)
    ELSE Fill([acc EXCEPT !.dirs = Append(@, v.treePath), !.fis = Append(@, <<>>)])

RECURSIVE pseudoVisits(_, _, _, _, _, _)
pseudoVisits(root, visits, acc, dir, pat, order) ==
    IF visits = <<>> THEN acc
    ELSE pseudoVisits(root, Tail(visits), pseudoVisit(root, Head(visits), acc, dir, pat, order),
                      dir, pat, order)

\* The text of a tree path without a trailing slash
stripSlash(s) == IF s # <<>> /\ Last(s) = "/" THEN Front(s) ELSE s

\* Tree.Dir; order is the iteration order of the children maps
TreeDir(root, rem, faults, dir, pat, recursive, checksums, order) ==
    LET Both(visits) ==
            pseudoVisits(root, visits,
                         dirVisits(Targets(visits),
                                   [dirs |-> <<>>, fis |-> <<>>, err |-> NilError,
                                    sent |-> <<>>, rem |-> rem],
                                   faults,
                                   [Ctrl("dir", <<>>) EXCEPT !.x = pat, !.r = recursive,
                                                             !.c = checksums]),
                         stripSlash(PathStr(dir)), pat, order)
    IN Both(findPathBranches(root, <<>>, <<>>, createMappingPath(dir), recursive))

\* ------------------------------------------------------------------------
\* The tree specification: branches and mappings are added to a tree, and
\* the tree is read, written and listed while the transport may fail
\* ------------------------------------------------------------------------

\* What Client.SendPing returns to the tree
TreePing(fault) ==
    CASE fault = "down" -> [fp |-> "", err |-> handleError(TRUE, "connection refused")]
      [] fault = "eof" -> [fp |-> "", err |-> handleError(FALSE, EOF)]
      [] OTHER -> [fp |-> fingerprint(RemoteCert), err |-> NilError]

\* A tree that accepts every fingerprint
unexpectedNever(given, fp) == FALSE

\* Tree.AddBranch: the test of the given fingerprint against the one of the ping
unexpected(given, fp) == given # "" /\ given # fp

\* Tree.AddBranch; ping is the result of SendPing.  The map of the branch
\* is shared by both lists, so the accepted fingerprint shows in both.
AddBranch(t, branchName, branchRPC, branchFingerprint, ping) ==
    LET branchMap(fp) == [branch |-> branchName, rpc |-> branchRPC, fingerprint |-> fp]
        Seen(err) ==
            [tree |-> [t EXCEPT !.branchesAll = Append(@, branchMap(branchFingerprint))],
             err |-> err]
    IN
    IF ping.err # NilError THEN Seen(ping.err)
    ELSE IF unexpected(branchFingerprint, ping.fp)
    THEN Seen(PlainError("Remote branch has an unexpected fingerprint"))
    ELSE IF branchName \in DOMAIN t.peers
    THEN Seen(NodeError("Peer already registered", branchName, FALSE))
    ELSE [tree |-> [t EXCEPT !.branchesAll = Append(@, branchMap(ping.fp)),
                             !.branches = Append(@, branchMap(ping.fp)),
                             !.peers = MapPut(@, branchName, ping.fp)],
          err |-> NilError]

\* A tree that maps whatever branch it is given
anyPeer(peers, branchName) == TRUE

\* Tree.AddMapping: the search of the branch among the peers of the client
knownPeer(peers, branchName) == branchName \in DOMAIN peers

\* Tree.AddMapping
AddMapping(t, dir, branchName, writable) ==
    LET mappingMap == [path |-> dir, branch |-> branchName, writeable |-> writable] IN
    IF knownPeer(t.peers, branchName)
    THEN [tree |-> [t EXCEPT !.mappingAll = Append(@, mappingMap),
                             !.mapping = Append(@, mappingMap),
                             !.root = addMapping(@, <<>>, createMappingPath(dir),
                                                 branchName, writable)],
          err |-> NilError]
    ELSE [tree |-> [t EXCEPT !.mappingAll = Append(@, mappingMap)],
          err |-> PlainError(ErrUnknownTarget)]

\* A tree after SetMapping: every branch was reached and added, then at most
\* k mappings were added
RECURSIVE TreeConfigs(_)
TreeConfigs(k) ==
    LET More(prev) ==
            prev \cup {AddMapping(t, dir, b, writable).tree :
                          t \in prev, dir \in MapDirs, b \in TreeBranches,
                          writable \in BOOLEAN}
        Added(t, i) == AddBranch(t, BranchOrder[i], "rpc", "", TreePing("")).tree
        AllAdded[i \in 0..Len(BranchOrder)] ==
            IF i = 0 THEN NewTree ELSE Added(AllAdded[i - 1], i)
    IN IF k = 0 THEN {AllAdded[Len(BranchOrder)]} ELSE More(TreeConfigs(k - 1))

TreeInit ==
    /\ tree \in TreeConfigs(MaxMappings)
    /\ remote \in {[b \in TreeBranches |->
                       [fs |-> RemoteHost(b), readonly |-> (b = "b2" /\ ro)]] :
                   ro \in BOOLEAN}
    /\ tlast = NoTreeOp
    /\ refresh = NoRefresh
    /\ LockQuiet
    /\ tcount = 0
    /\ TransportQuiet
    /\ hostfs = InitialHost
    /\ branch = [name |-> "b", rootPath |-> <<cR>>, readonly |-> FALSE]
    /\ pool = {}
    /\ last = NoRequest
    /\ served = 0

\* The failures of the transport during one call of the tree: at most one
\* branch is out of reach
TreeFaults ==
    {f \in [TreeBranches -> Faults] : Cardinality({b \in TreeBranches : f[b] # ""}) <= 1}

TreePaths == {<<cF>>, <<cD, cF>>}
TreeDirs == {<<>>, <<cD>>}
TreePayloads == {<<7>>}
TreeOffsets == {0, 1}
ChildOrders == {<<cD>>}
TreePatterns == {PatAll, PatLiteral(cD)}

CallTreeReadFile ==
    \E spath \in TreePaths, offset \in TreeOffsets, faults \in TreeFaults :
      \E r \in {TreeReadFile(tree.root, remote, faults, spath, Zeros(ReadBufferSize), offset)} :
        /\ tcount < MaxTreeOps
        /\ tcount' = tcount + 1
        /\ tlast' = [NoTreeOp EXCEPT !.op = "read", !.args = <<spath, offset>>,
                                     !.err = r.err, !.n = r.n, !.p = r.p, !.sent = r.sent]
        /\ UNCHANGED <<tree, remote, refresh, bvars, tvars, lvars>>

CallTreeWriteFile ==
    \E spath \in TreePaths, p \in TreePayloads, offset \in TreeOffsets, faults \in TreeFaults :
      \E r \in {TreeWriteFile(tree.root, remote, faults, spath, p, offset)} :
        /\ tcount < MaxTreeOps
        /\ tcount' = tcount + 1
        /\ \A b \in TreeBranches : WithinBounds(r.rem[b].fs)
        /\ remote' = r.rem
        /\ tlast' = [NoTreeOp EXCEPT !.op = "write", !.args = <<spath, offset, p>>,
                                     !.err = r.err, !.n = r.n, !.sent = r.sent]
        /\ UNCHANGED <<tree, refresh, bvars, tvars, lvars>>

CallDir(patterns) ==
    \E dir \in TreeDirs, recursive \in BOOLEAN, faults \in TreeFaults, order \in ChildOrders,
       pat \in patterns :
      \E r \in {TreeDir(tree.root, remote, faults, dir, pat, recursive, TRUE, order)} :
        /\ tcount < MaxTreeOps
        /\ tcount' = tcount + 1
        /\ tlast' = [NoTreeOp EXCEPT !.op = "dir", !.args = <<dir, recursive, pat>>,
                                     !.err = r.err, !.dirs = r.dirs, !.fis = r.fis,
                                     !.sent = r.sent]
        /\ UNCHANGED <<tree, remote, refresh, bvars, tvars, lvars>>

\* Dir with the empty pattern, which every name matches
CallTreeDir == CallDir({PatAll})

\* Dir with a pattern of the caller
CallTreeDirPattern == CallDir(TreePatterns)

TreeNext == CallTreeReadFile \/ CallTreeWriteFile \/ CallTreeDir

TreeDirNext == CallTreeDirPattern

SpecTreeDir == TreeInit /\ [][TreeDirNext]_vars

SpecTree == TreeInit /\ [][TreeNext]_vars

\* ------------------------------------------------------------------------
\* The overlay: the branches hold entries of the same name, a file on one
\* and a directory or nothing on the other, and the tree is listed and read
\* ------------------------------------------------------------------------

\* The byte by which the file of a branch is known
Mark(b) == IF b = "b1" THEN 1 ELSE 2

OverlayKinds == {"file", "dir", "none"}

\* The host of the branch b with the entry f in its root /r
OverlayHost(b, kind) ==
    (<<>> :> DirEntry) @@ (<<cR>> :> DirEntry)
    @@ (CASE kind = "file" -> (<<cR, cF>> :> FileEntry(<<Mark(b)>>))
          [] kind = "dir" -> (<<cR, cF>> :> DirEntry)
          [] OTHER -> <<>>)

OverlayInit ==
    /\ tree \in TreeConfigs(MaxMappings)
    /\ remote \in {[b \in TreeBranches |-> [fs |-> OverlayHost(b, kinds[b]), readonly |-> FALSE]] :
                   kinds \in [TreeBranches -> OverlayKinds]}
    /\ tlast = NoTreeOp
    /\ refresh = NoRefresh
    /\ LockQuiet
    /\ tcount = 0
    /\ TransportQuiet
    /\ hostfs = InitialHost
    /\ branch = [name |-> "b", rootPath |-> <<cR>>, readonly |-> FALSE]
    /\ pool = {}
    /\ last = NoRequest
    /\ served = 0

OverlayNext == CallTreeDir \/ CallTreeReadFile

SpecOverlay == OverlayInit /\ [][OverlayNext]_vars

\* ------------------------------------------------------------------------
\* Streaming through the tree
\* ------------------------------------------------------------------------

\* An io.Reader over the bytes data: a Read fills the buffer of k bytes as far
\* as it can; an eager reader reports EOF together with its last bytes, the
\* other one with the next, empty Read
ReaderRead(src, k) ==
    LET n == Min(k, Len(src.data))
        atEnd == n = Len(src.data)
    IN [n |-> n,
        chunk |-> SubSeq(src.data, 1, n),
        err |-> IF n = 0 \/ (src.eager /\ atEnd) THEN EOF ELSE "",
        rest |-> [src EXCEPT !.data = SubSeq(src.data, n + 1, Len(src.data))]]

\* A source whose last bytes never come together with EOF
plainSource(src) == [src EXCEPT !.eager = FALSE]

\* buf.Read(writeBuf) in Tree.WriteFileFromBuffer
readSource(src) == ReaderRead(src, ReadBufferSize)

\* Tree.WriteFileFromBuffer
RECURSIVE writeFromBuffer(_, _, _, _, _, _)
writeFromBuffer(root, rem, faults, spath, src, offset) ==
    LET Wrote(rd, w) ==
            IF w.err = NilError
            THEN writeFromBuffer(root, w.rem, faults, spath, rd.rest, offset + rd.n)
            ELSE [err |-> w.err, rem |-> w.rem]
        Chunk(rd) ==
            Only({IF rd.err = "" THEN Wrote(rd, w) ELSE [err |-> NilError, rem |-> w.rem] :
                    w \in {TreeWriteFile(root, rem, faults, spath,
                                         IF rd.err = "" THEN rd.chunk ELSE <<>>, offset)}})
    IN Chunk(readSource(src))

TreeWriteFileFromBuffer(root, rem, faults, spath, src) ==
    writeFromBuffer(root, rem, faults, spath, src, 0)

\* Tree.ReadFileToBuffer; sink is what buf.Write has received
RECURSIVE readToBuffer(_, _, _, _, _, _)
readToBuffer(root, rem, faults, spath, offset, sink) ==
    LET Got(r) ==
            IF r.err = NilError
            THEN readToBuffer(root, rem, faults, spath, offset + r.n,
                              sink \o SubSeq(r.p, 1, r.n))
            ELSE IF IsEOF(r.err) THEN [err |-> NilError, sink |-> sink]
            ELSE [err |-> r.err, sink |-> sink]
    IN Only({Got(r) :
               r \in {TreeReadFile(root, rem, faults, spath, Zeros(ReadBufferSize), offset)}})

TreeReadFileToBuffer(root, rem, faults, spath) ==
    readToBuffer(root, rem, faults, spath, 0, <<>>)

\* The sources: empty, shorter than a chunk, one chunk, longer than a chunk
MaxStreamLen == 3
StreamData == {SubSeq(<<7, 8, 9>>, 1, k) : k \in 0..MaxStreamLen}
Sources == [data : StreamData, eager : BOOLEAN]
NoFaults == [b \in TreeBranches |-> ""]

CallWriteFileFromBuffer ==
    \E spath \in TreePaths, src \in Sources, faults \in TreeFaults :
      \E r \in {TreeWriteFileFromBuffer(tree.root, remote, faults, spath, src)} :
        /\ tcount < MaxTreeOps
        /\ tcount' = tcount + 1
        /\ remote' = r.rem
        /\ tlast' = [NoTreeOp EXCEPT !.op = "writefrom", !.args = <<spath, src>>,
                                     !.err = r.err]
        /\ UNCHANGED <<tree, refresh, bvars, tvars, lvars>>

CallReadFileToBuffer ==
    \E spath \in TreePaths, faults \in TreeFaults :
      \E r \in {TreeReadFileToBuffer(tree.root, remote, faults, spath)} :
        /\ tcount < MaxTreeOps
        /\ tcount' = tcount + 1
        /\ tlast' = [NoTreeOp EXCEPT !.op = "readto", !.args = <<spath, faults = NoFaults>>,
                                     !.err = r.err, !.p = r.sink]
        /\ UNCHANGED <<tree, remote, refresh, bvars, tvars, lvars>>

StreamNext == CallWriteFileFromBuffer \/ CallReadFileToBuffer

\* The trees that stream: at most StreamMappings mappings
StreamMappings == 1
StreamInit == TreeInit /\ tree \in TreeConfigs(StreamMappings)

SpecStream == StreamInit /\ [][StreamNext]_vars

\* ------------------------------------------------------------------------
\* Item operations through the tree
\* ------------------------------------------------------------------------

\* strings.HasSuffix(r, "**") for the name of an item operation
recurseName(name) ==
    /\ name # <<>>
    /\ Len(Last(name)) >= 2
    /\ Last(name)[Len(Last(name))] = "*"
    /\ Last(name)[Len(Last(name)) - 1] = "*"

\* An aggregation that lets a not-exists answer fail the operation
countsNever(e) == FALSE

\* Tree.ItemOp: the answers that are only counted
countsNotFound(e) == e.isNotExist

\* Tree.ItemOp, one branch of a visit
itemOne(tg, acc, faults, op) ==
    LET Got(ctrl, ans) ==
            IF countsNotFound(ans.err)
            THEN [acc EXCEPT !.totalCount = @ + 1, !.notFoundCount = @ + 1,
                             !.sent = Append(@, Sent(tg, ctrl, <<>>, ans))]
            ELSE IF ans.err = NilError
            THEN [acc EXCEPT !.totalCount = @ + 1,
                             !.ret = @ \/ ans.res.ok,
                             !.rem = [@ EXCEPT ![tg.branch].fs = ans.fs],
                             !.sent = Append(@, Sent(tg, ctrl, <<>>, ans))]
            ELSE [acc EXCEPT !.totalCount = @ + 1, !.err = ans.err,
                             !.sent = Append(@, Sent(tg, ctrl, <<>>, ans))]
        Send(ctrl) ==
            Only({Got(ctrl, ans) :
                    ans \in {TreeSendData(acc.rem, faults[tg.branch], tg.branch, ctrl, <<>>,
                                          handleItemOp(BranchOf(acc.rem, tg.branch),
                                             acc.rem[tg.branch].fs, {}, ctrl, <<>>,
                                             Zeros(ReadBufferSize)))}})
    IN
    IF ~tg.writable
    THEN [acc EXCEPT !.totalCount = @ + 1, !.ignoreCount = @ + 1]
    ELSE IF acc.err = NilError
    THEN Send([Ctrl("itemop", JoinRel(<<>>, tg.branchPath))
                  EXCEPT !.action = op.action, !.name = op.name, !.newname = op.newname])
    ELSE [acc EXCEPT !.totalCount = @ + 1]

RECURSIVE itemVisits(_, _, _, _)
itemVisits(targets, acc, faults, op) ==
    IF targets = <<>> THEN acc
    ELSE itemVisits(Tail(targets), itemOne(Head(targets), acc, faults, op), faults, op)

\* Tree.ItemOp
TreeItemOp(root, rem, faults, dir, op) ==
    LET Check(acc) ==
            IF acc.totalCount = acc.ignoreCount
            THEN [acc EXCEPT !.err = PlainError(ErrNotWritable)]
            ELSE IF acc.totalCount = acc.notFoundCount + acc.ignoreCount
            THEN [acc EXCEPT !.err = NodeError(ErrRemoteAction, ErrNotExist, TRUE)]
            ELSE acc
    IN Check(itemVisits(Targets(findPathBranches(root, <<>>, dir, createMappingPath(dir),
                                                 recurseName(op.name))),
                        [ret |-> FALSE, err |-> NilError, totalCount |-> 0,
                         ignoreCount |-> 0, notFoundCount |-> 0, sent |-> <<>>,
                         rem |-> rem],
                        faults, op))

ItemOps ==
    {[action |-> a, name |-> <<n>>, newname |-> IF a = "rename" THEN <<cD>> ELSE <<>>] :
        a \in {"mkdir", "delete", "rename"}, n \in {cF, cD}}

CallTreeItemOp ==
    \E dir \in TreeDirs, op \in ItemOps, faults \in TreeFaults :
      \E r \in {TreeItemOp(tree.root, remote, faults, dir, op)} :
        /\ tcount < MaxTreeOps
        /\ tcount' = tcount + 1
        /\ \A b \in TreeBranches : WithinBounds(r.rem[b].fs)
        /\ remote' = r.rem
        /\ tlast' = [NoTreeOp EXCEPT !.op = "itemop", !.args = <<dir, op>>,
                                     !.err = r.err, !.ok = r.ret, !.sent = r.sent]
        /\ UNCHANGED <<tree, refresh, bvars, tvars, lvars>>

ItemOpNext == CallTreeItemOp

SpecItemOp == TreeInit /\ [][ItemOpNext]_vars

\* ------------------------------------------------------------------------
\* Copying and synchronising through the tree
\* ------------------------------------------------------------------------

SyncCreateDirectory == "Create directory"
SyncCopyFile == "Copy file"
SyncRemoveDirectory == "Remove directory"
SyncRemoveFile == "Remove file"

\* What updFunc received, and an operation Sync issued with its error
SyncNote(op, s, d, w) ==
    [k |-> "note", op |-> op, s |-> s, d |-> d, w |-> w, err |-> NilError]
SyncDone(op, d, err) ==
    [k |-> "done", op |-> op, s |-> <<>>, d |-> d, w |-> 0, err |-> err]

\* The byte counts statusUpdatingWriter reports for the writes of
\* ReadFileToBuffer into the pipe: one per chunk
RECURSIVE chunkSizes(_)
chunkSizes(n) ==
    IF n = 0 THEN <<>> ELSE <<Min(n, ReadBufferSize)>> \o chunkSizes(n - Min(n, ReadBufferSize))

\* Tree.CopyFile.  The pipe hands every chunk that ReadFileToBuffer wrote to
\* one Read of WriteFileFromBuffer and answers EOF once it is closed.  upd
\* says that the caller gave an updFunc; the writer of the pipe is wrapped
\* only then.  bs is what updFunc received: the size of every chunk, -1 at
\* the close of the writer, 0 for an empty source.  After the write of an
\* empty file updFunc is called whether it was given or not: the call of a
\* nil func panics.  wrote are the requests of that write.  pw says whether
\* the writer of the pipe is closed when CopyFile returns: the goroutine that
\* reads the source closes it, which WriteFileFromBuffer waits for unless a
\* write fails; a source that is empty or cannot be read starts no goroutine.
CopyFile(root, rem, faults, srcPath, dstPath, upd) ==
    LET Piped(rd, wr) ==
            [err |-> IF rd.err # NilError THEN rd.err ELSE wr.err,
             rem |-> wr.rem,
             bs |-> IF upd THEN Append(chunkSizes(Len(rd.sink)), -1) ELSE <<>>,
             panic |-> FALSE, wrote |-> <<>>,
             pw |-> IF wr.err = NilError THEN {TRUE} ELSE BOOLEAN]
        Stream(rd) ==
            Only({Piped(rd, wr) :
                    wr \in {TreeWriteFileFromBuffer(root, rem, faults, dstPath,
                                                    [data |-> rd.sink, eager |-> FALSE])}})
        Empty(w) == [err |-> w.err, rem |-> w.rem, bs |-> IF upd THEN <<0>> ELSE <<>>,
                     panic |-> ~upd, wrote |-> w.sent, pw |-> {FALSE}]
        Checked(rerr) ==
            IF rerr = NilError
            THEN Only({Stream(rd) :
                         rd \in {TreeReadFileToBuffer(root, rem, faults, srcPath)}})
            ELSE IF IsEOF(rerr)
            THEN Only({Empty(w) : w \in {TreeWriteFile(root, rem, faults, dstPath, <<>>, 0)}})
            ELSE [err |-> rerr, rem |-> rem, bs |-> <<>>, panic |-> FALSE, wrote |-> <<>>,
                  pw |-> {FALSE}]
    IN Only({Checked(r.err) : r \in {TreeReadFile(root, rem, faults, srcPath, <<>>, 0)}})

\* relPath(path, prefix) for a directory of a listing of prefix
relPath(p, prefix) == IF IsUnder(prefix, p) THEN SubSeq(p, Len(prefix) + 1, Len(p)) ELSE p

Without(f, key) == [x \in DOMAIN f \ {key} |-> f[x]]

\* doSync keeps the notifications of the callback u for the counts bs
RECURSIVE copyNotes(_, _, _, _)
copyNotes(bs, s, d, total) ==
    IF bs = <<>> THEN <<>>
    ELSE IF Head(bs) >= 0
    THEN <<SyncNote(SyncCopyFile, s, d, total + Head(bs))>>
            \o copyNotes(Tail(bs), s, d, total + Head(bs))
    ELSE <<SyncNote(SyncCopyFile, s, d, Head(bs))>> \o copyNotes(Tail(bs), s, d, total)

\* Sync is the sequence of the operations it issues on the tree.  What is
\* left to do is a list of steps: the listing of the source, doSync of a
\* directory of the source, one entry of the loop over finfos, the loops
\* over dirMap and fileMap, and one removal of these loops
SyncStep(k, dir, fis, name, what) ==
    [k |-> k, dir |-> dir, fis |-> fis, name |-> name, what |-> what]

NoSyncCall == [k |-> "none", path |-> <<>>, to |-> <<>>, recursive |-> FALSE, op |-> EmptyMap]

\* The operation of the tree a step issues
syncCall(cx, st, it) ==
    LET ddir == JoinAbs(cx.dstDir, it.dir)
        sdir == JoinAbs(cx.srcDir, it.dir)
        fi == it.fis[1]
    IN CASE it.k = "source" ->
              [NoSyncCall EXCEPT !.k = "dir", !.path = cx.srcDir, !.recursive = cx.recursive]
         [] it.k = "dosync" ->
              [NoSyncCall EXCEPT !.k = "dir", !.path = ddir]
         [] it.k = "entry" /\ fi.isDir /\ fi.name \notin st.dirMap ->
              [NoSyncCall EXCEPT !.k = "itemop", !.path = ddir,
                                 !.op = [action |-> "mkdir", name |-> <<fi.name>>,
                                         newname |-> <<>>]]
         [] it.k = "entry" /\ ~fi.isDir
              /\ (fi.name \notin DOMAIN st.fileMap \/ st.fileMap[fi.name] # fi.sum) ->
              [NoSyncCall EXCEPT !.k = "copy", !.path = Append(sdir, fi.name),
                                 !.to = Append(ddir, fi.name)]
         [] it.k = "delete" ->
              [NoSyncCall EXCEPT !.k = "itemop", !.path = ddir,
                                 !.op = [action |-> "delete", name |-> <<it.name>>,
                                         newname |-> <<>>]]
         [] OTHER -> NoSyncCall

\* Tree.Dir, Tree.ItemOp and Tree.CopyFile as Sync calls them; the transport
\* fails as faults says
syncIssue(cx, rem, faults, call) ==
    LET Listed(l) == [err |-> l.err, rem |-> rem, dirs |-> l.dirs, fis |-> l.fis, bs |-> <<>>]
        Done(r) == [err |-> r.err, rem |-> r.rem, dirs |-> <<>>, fis |-> <<>>, bs |-> <<>>]
        Copied(c) == [err |-> c.err, rem |-> c.rem, dirs |-> <<>>, fis |-> <<>>, bs |-> c.bs]
    IN CASE call.k = "dir" ->
              Only({Listed(l) :
                      l \in {TreeDir(cx.root, rem, faults, call.path, PatAll,
                                     call.recursive, TRUE, cx.order)}})
         [] call.k = "itemop" ->
              Only({Done(r) :
                      r \in {TreeItemOp(cx.root, rem, faults, call.path, call.op)}})
         [] call.k = "copy" ->
              Only({Copied(c) :
                      c \in {CopyFile(cx.root, rem, faults, call.path, call.to, TRUE)}})
         [] OTHER -> [err |-> NilError, rem |-> rem, dirs |-> <<>>, fis |-> <<>>, bs |-> <<>>]

\* What Sync does with the answer r to the call of the step it; rest are the
\* steps after it
syncAfter(cx, st, it, rest, call, r) ==
    LET ddir == JoinAbs(cx.dstDir, it.dir)
        InOrder(S) == IF cx.rev THEN Reverse(SortStrings(S)) ELSE SortStrings(S)
        Steps(k, dir, fis) == [i \in 1..Len(fis) |-> SyncStep(k, dir, <<fis[i]>>, <<>>, "")]
        Removals(names, what) ==
            [i \in 1..Len(names) |-> SyncStep("delete", it.dir, <<>>, names[i], what)]
        dstFis == IF Len(r.fis) > 0 THEN r.fis[1] ELSE <<>>
        Files == {j \in 1..Len(dstFis) : ~dstFis[j].isDir}
        t == [st EXCEPT !.rem = r.rem, !.err = r.err, !.todo = rest,
                        !.n = IF call.k = "none" THEN @ ELSE @ + 1,
                        !.log = IF call.k = "dir"
                                THEN @ \o <<SyncDone("dir", call.path, r.err)>> ELSE @]
    IN CASE it.k = "source" ->
              IF r.err # NilError THEN t
              ELSE [t EXCEPT !.todo =
                      [i \in 1..Len(r.dirs) |->
                         SyncStep("dosync", relPath(r.dirs[i], cx.srcDir), r.fis[i], <<>>, "")]]
         [] it.k = "dosync" ->
              IF r.err # NilError THEN t
              ELSE [t EXCEPT !.dirMap = {dstFis[j].name :
                                           j \in {i \in 1..Len(dstFis) : dstFis[i].isDir}},
                             !.fileMap =
                                [n \in {dstFis[j].name : j \in Files} |->
                                   dstFis[CHOOSE j \in Files : dstFis[j].name = n].sum],
                             !.todo = Steps("entry", it.dir, it.fis)
                                      \o <<SyncStep("remove", it.dir, <<>>, <<>>, "")>>
                                      \o rest]
         [] it.k = "entry" /\ it.fis[1].isDir ->
              [t EXCEPT !.dirMap = @ \ {it.fis[1].name},
                        !.log = IF call.k = "none" THEN @
                                ELSE @ \o <<SyncNote(SyncCreateDirectory, <<>>,
                                                     Append(call.path, it.fis[1].name), 0),
                                            SyncDone("mkdir",
                                                     Append(call.path, it.fis[1].name),
                                                     r.err)>>]
         [] it.k = "entry" ->
              [t EXCEPT !.fileMap = Without(@, it.fis[1].name),
                        !.log = IF call.k = "none" THEN @
                                ELSE @ \o copyNotes(r.bs, call.path, call.to, 0)
                                       \o <<SyncDone("copy", call.to, r.err)>>
                                       \o (IF r.err # NilError
                                           THEN <<SyncNote(SyncCopyFile, call.path,
                                                           call.to, 0)>>
                                           ELSE <<>>)]
         [] it.k = "remove" ->
              [t EXCEPT !.todo = Removals(InOrder(st.dirMap), SyncRemoveDirectory)
                                 \o Removals(InOrder(DOMAIN st.fileMap), SyncRemoveFile)
                                 \o rest]
         [] OTHER ->
              [t EXCEPT !.log = @ \o <<SyncNote(it.what, <<>>, Append(ddir, it.name), 0),
                                       SyncDone("delete", Append(ddir, it.name), r.err)>>]

\* The loops of Sync and of doSync end at the first error
syncOn(err) == FALSE
syncBreak(err) == err # NilError

\* The steps of Sync up to the first error
RECURSIVE syncSteps(_, _)
syncSteps(cx, st) ==
    LET Continue(it, rest, call) ==
            Only({syncAfter(cx, st, it, rest, call, r) :
                    r \in {syncIssue(cx, st.rem,
                                      IF st.n + 1 >= cx.failFrom THEN cx.faults
                                      ELSE NoFaults, call)}})
        Perform(it, rest) ==
            Only({Continue(it, rest, call) : call \in {syncCall(cx, st, it)}})
    IN IF st.todo = <<>> \/ syncBreak(st.err) THEN st
       ELSE Only({syncSteps(cx, t) : t \in {Perform(Head(st.todo), Tail(st.todo))}})

\* Tree.Sync; order is the iteration order of the children maps of the
\* tree, rev the one of the maps of doSync.  The transport fails as faults
\* says from the operation failFrom of the call on
Sync(root, rem, faults, failFrom, srcDir, dstDir, recursive, order, rev) ==
    syncSteps([root |-> root, faults |-> faults, failFrom |-> failFrom,
               srcDir |-> srcDir, dstDir |-> dstDir,
               recursive |-> recursive, order |-> order, rev |-> rev],
              [rem |-> rem, err |-> NilError, log |-> <<>>, dirMap |-> {},
               fileMap |-> EmptyMap, n |-> 0,
               todo |-> <<SyncStep("source", <<>>, <<>>, <<>>, "")>>])

\* The tree that is synchronised: the source /s is a read-only mapping of
\* b2, the destination /d a writable mapping of b1
cS == <<"s">>
SyncTree ==
    LET Added(t, b) == AddBranch(t, b, "rpc", "", TreePing("")).tree
    IN AddMapping(AddMapping(Added(Added(NewTree, "b1"), "b2"), <<cS>>, "b2", FALSE).tree,
                  <<cD>>, "b1", TRUE).tree

\* The destinations a synchronisation starts from.  The source has the file
\* f, the directory d and the file d/f; the destination has any of: f as a
\* file of the same, of other or of longer content or as a directory, d as
\* a directory, empty or not, or as a file, and the file x, which the source
\* has not
cX == <<"x">>
SyncHosts ==
    LET Base == (<<>> :> DirEntry) @@ (<<cR>> :> DirEntry)
        EmptyFs == [p \in {} |-> DirEntry]
        AtF == {EmptyFs, <<cR, cF>> :> FileEntry(<<2>>), <<cR, cF>> :> FileEntry(<<1>>),
                <<cR, cF>> :> FileEntry(<<2, 1>>), <<cR, cF>> :> DirEntry}
        AtD == {EmptyFs, <<cR, cD>> :> DirEntry, <<cR, cD>> :> FileEntry(<<>>),
                (<<cR, cD>> :> DirEntry) @@ (<<cR, cD, cF>> :> FileEntry(<<2, 2>>)),
                (<<cR, cD>> :> DirEntry) @@ (<<cR, cD, cX>> :> FileEntry(<<1>>))}
        AtX == {EmptyFs, <<cR, cX>> :> FileEntry(<<1>>)}
    IN {Base @@ f @@ d @@ x : f \in AtF, d \in AtD, x \in AtX}

SyncInit ==
    /\ tree = SyncTree
    /\ tlast = NoTreeOp
    /\ refresh = NoRefresh
    /\ LockQuiet
    /\ tcount = 0
    /\ TransportQuiet
    /\ hostfs = InitialHost
    /\ branch = [name |-> "b", rootPath |-> <<cR>>, readonly |-> FALSE]
    /\ pool = {}
    /\ last = NoRequest
    /\ served = 0
    /\ remote \in {[b1 |-> [fs |-> fs, readonly |-> ro],
                    b2 |-> [fs |-> RemoteHost("b2"), readonly |-> FALSE]] :
                      fs \in SyncHosts, ro \in BOOLEAN}

MaxSyncs == 1
FailFrom == {1, 4}

CallSync ==
    \E recursive \in BOOLEAN, faults \in TreeFaults, order \in ChildOrders,
       rev \in BOOLEAN :
     \E failFrom \in {n \in FailFrom : n = 1 \/ faults # NoFaults} :
      \E r \in {Sync(tree.root, remote, faults, failFrom, <<cS>>, <<cD>>, recursive,
                     order, rev)} :
        /\ tcount < MaxSyncs
        /\ tcount' = tcount + 1
        /\ remote' = r.rem
        /\ tlast' = [NoTreeOp EXCEPT !.op = "sync",
                                     !.args = <<<<cS>>, <<cD>>, recursive, faults = NoFaults>>,
                                     !.err = r.err, !.log = r.log]
        /\ UNCHANGED <<tree, refresh, bvars, tvars, lvars>>

SyncNext == CallSync

SpecSync == SyncInit /\ [][SyncNext]_vars

\* ------------------------------------------------------------------------
\* Copying through the tree
\* ------------------------------------------------------------------------

MaxCopies == 1

\* The files that are copied and where they are copied to: /s is the tree of
\* the branch b2, /d the one of the branch b1
CopyFileSources == {<<cS, cF>>, <<cD, cD>>, <<cS, cX>>}
CopyFileTargets == {<<cD, cX>>}

\* A call of Tree.CopyFile, with an updFunc or with none as Sync calls it
\* when it has no updFunc itself.  ok says that the call returned, pipe which
\* ends of the pipe are closed then.
CallCopyFile ==
    \E srcPath \in CopyFileSources, dstPath \in CopyFileTargets, upd \in BOOLEAN,
       faults \in TreeFaults :
      \E r \in {CopyFile(tree.root, remote, faults, srcPath, dstPath, upd)} :
       \E closed \in r.pw :
        /\ tcount < MaxCopies
        /\ tcount' = tcount + 1
        /\ remote' = r.rem
        /\ tlast' = [NoTreeOp EXCEPT !.op = "copyfile",
                                     !.args = <<srcPath, dstPath, upd, faults = NoFaults>>,
                                     !.err = r.err, !.ok = ~r.panic, !.log = r.bs,
                                     !.sent = r.wrote,
                                     !.pipe = [reader |-> ~r.panic, writer |-> closed]]
        /\ UNCHANGED <<tree, refresh, bvars, tvars, lvars>>

\* Tree.Stat, from the answer l of Dir(dir, file, false, true): the first
\* entry of the only listing that has the name file, with the error of Dir;
\* without such an entry the error of Dir or, if there is none, not-exist
statOf(l, file) ==
    LET Hits == IF Len(l.fis) = 1
                THEN {k \in 1..Len(l.fis[1]) : l.fis[1][k].name = file}
                ELSE {}
        First == CHOOSE k \in Hits : \A h \in Hits : k <= h
    IN IF Hits # {}
       THEN [found |-> TRUE, fi |-> l.fis[1][First], err |-> l.err]
       ELSE [found |-> FALSE, fi |-> PseudoDir(<<>>),
             err |-> IF l.err = NilError
                     THEN NodeError(ErrRemoteAction, ErrNotExist, TRUE)
                     ELSE l.err]

\* The errors of Tree.Copy
CannotStat(s, err) == PlainError(<<"Cannot stat", s, err.detail>>)
CannotCopy(srcFile, dst, err) == PlainError(<<"Cannot copy", srcFile, dst, err.detail>>)

\* Tree.Copy, the files of the listing of the directory s with the entry fi:
\* every entry that is no directory, with its path below the name of s
RECURSIVE copyFound(_, _, _, _, _)
copyFound(s, fi, dirs, fis, i) ==
    LET Rel(name) == <<fi.name>> \o SubSeq(Append(dirs[i], name), Len(s) + 1, Len(dirs[i]) + 1)
        Files == SelectSeq(fis[i], LAMBDA e : ~e.isDir)
    IN IF i > Len(dirs) THEN <<>>
       ELSE [k \in 1..Len(Files) |->
               [rel |-> Rel(Files[k].name), path |-> Append(dirs[i], Files[k].name)]]
            \o copyFound(s, fi, dirs, fis, i + 1)

\* Tree.Copy, what was found is recorded: relPaths grows, paths is a map
copyRecord(st, found) ==
    [st EXCEPT !.relPaths = @ \o [k \in 1..Len(found) |-> found[k].rel],
               !.paths = [r \in DOMAIN @ \cup {found[k].rel : k \in 1..Len(found)} |->
                            IF \E k \in 1..Len(found) : found[k].rel = r
                            THEN found[CHOOSE k \in 1..Len(found) :
                                         /\ found[k].rel = r
                                         /\ \A h \in (k + 1)..Len(found) : found[h].rel # r].path
                            ELSE @[r]]]

\* The call of the tree that Tree.Copy makes next
copyCall(cx, st) ==
    CASE st.pc \in {"stat", "again"} ->
           [k |-> "dir", path |-> SplitDir(cx.src[st.i]),
            pat |-> PatLiteral(SplitFile(cx.src[st.i])), recursive |-> FALSE,
            checksums |-> TRUE, to |-> <<>>]
      [] st.pc = "expand" ->
           [k |-> "dir", path |-> cx.src[st.i], pat |-> PatAll, recursive |-> TRUE,
            checksums |-> FALSE, to |-> <<>>]
      [] OTHER ->
           [k |-> "copy", path |-> st.paths[st.relPaths[st.i]], pat |-> PatAll,
            recursive |-> FALSE, checksums |-> FALSE,
            to |-> cx.dst \o st.relPaths[st.i]]

\* The call is made
copyIssue(cx, rem, faults, call) ==
    LET Listed(l) == [err |-> l.err, rem |-> rem, dirs |-> l.dirs, fis |-> l.fis]
        Copied(c) == [err |-> c.err, rem |-> c.rem, dirs |-> <<>>, fis |-> <<>>]
    IN IF call.k = "dir"
       THEN Only({Listed(l) :
                    l \in {TreeDir(cx.root, rem, faults, call.path, call.pat,
                                   call.recursive, call.checksums, cx.order)}})
       ELSE Only({Copied(c) :
                    c \in {CopyFile(cx.root, rem, faults, call.path, call.to, TRUE)}})

\* Tree.Copy, the error of the expansion of a directory.  It is assigned to
\* a variable of the if statement, which hides the error that Copy returns.
expandError(statErr, dirErr) == statErr

\* Tree.Copy, the end of the turn of the source i: an error ends the loop
copyChecked(cx, st, err) ==
    IF err # NilError
    THEN [st EXCEPT !.pc = "done", !.err = CannotStat(cx.src[st.i], err)]
    ELSE IF st.i < Len(cx.src)
    THEN [st EXCEPT !.pc = "stat", !.i = @ + 1]
    ELSE IF st.relPaths = <<>>
    THEN [st EXCEPT !.pc = "done"]
    ELSE [st EXCEPT !.pc = "copy", !.i = 1]

\* Tree.Copy after the call has returned r
copyAfter(cx, st0, call, r) ==
    LET st == [st0 EXCEPT !.n = @ + 1, !.rem = r.rem,
                          !.calls = Append(@, [at |-> st0.pc, path |-> call.path,
                                               to |-> call.to, err |-> r.err,
                                               src |-> IF st0.pc = "copy" THEN <<>>
                                                       ELSE cx.src[st0.i]])]
        stat == statOf(r, SplitFile(cx.src[st.i]))
        Single == <<[rel |-> <<stat.fi.name>>, path |-> cx.src[st.i]]>>
    IN CASE st.pc = "stat" -> [st EXCEPT !.pc = "again"]
         [] st.pc = "again" ->
              IF stat.found /\ stat.fi.isDir
              THEN [st EXCEPT !.pc = "expand", !.fi = stat.fi, !.err = stat.err]
              ELSE IF stat.found
              THEN copyChecked(cx, copyRecord(st, Single), stat.err)
              ELSE copyChecked(cx, st, stat.err)
         [] st.pc = "expand" ->
              copyChecked(cx,
                          [(IF r.err = NilError
                            THEN copyRecord(st, copyFound(cx.src[st.i], st.fi, r.dirs, r.fis, 1))
                            ELSE st) EXCEPT !.err = NilError],
                          expandError(st.err, r.err))
         [] OTHER ->
              IF r.err # NilError
              THEN [st EXCEPT !.pc = "done",
                              !.err = CannotCopy(call.path, cx.dst, r.err)]
              ELSE IF st.i < Len(st.relPaths)
              THEN [st EXCEPT !.i = @ + 1]
              ELSE [st EXCEPT !.pc = "done"]

RECURSIVE copySteps(_, _)
copySteps(cx, st) ==
    LET Continue(call) ==
            Only({copyAfter(cx, st, call, r) :
                    r \in {copyIssue(cx, st.rem,
                                      IF st.n + 1 >= cx.failFrom THEN cx.faults
                                      ELSE NoFaults, call)}})
    IN IF st.pc = "done" THEN st
       ELSE Only({copySteps(cx, t) : t \in {Only({Continue(call) : call \in {copyCall(cx, st)}})}})

\* Tree.Copy with an updFunc.  The failures of the transport begin with the
\* call failFrom of the tree; calls are the calls of the tree in their order.
Copy(root, rem, faults, failFrom, src, dst, order) ==
    IF src = <<>>
    THEN [pc |-> "done", err |-> NilError, rem |-> rem, calls |-> <<>>]
    ELSE copySteps([root |-> root, faults |-> faults, failFrom |-> failFrom,
                    src |-> src, dst |-> dst, order |-> order],
                   [pc |-> "stat", i |-> 1, fi |-> PseudoDir(<<>>), err |-> NilError,
                    rem |-> rem, relPaths |-> <<>>, paths |-> (<<>> :> <<>>), n |-> 0,
                    calls |-> <<>>])

\* What is copied: a file, a directory, a directory and a file
CopySources == {<<<<cS, cF>>>>, <<<<cS, cD>>>>, <<<<cS, cD>>, <<cS, cF>>>>}
CopyFailFrom == {1, 3, 4}

CallCopy ==
    \E src \in CopySources, faults \in TreeFaults, order \in ChildOrders :
     \E failFrom \in {n \in CopyFailFrom : n = 1 \/ faults # NoFaults} :
      \E r \in {Copy(tree.root, remote, faults, failFrom, src, <<cD>>, order)} :
        /\ tcount < MaxCopies
        /\ tcount' = tcount + 1
        /\ remote' = r.rem
        /\ tlast' = [NoTreeOp EXCEPT !.op = "copy", !.args = <<src, <<cD>>>>,
                                     !.err = r.err, !.log = r.calls]
        /\ UNCHANGED <<tree, refresh, bvars, tvars, lvars>>

CopyNext == CallCopyFile \/ CallCopy

SpecCopy == SyncInit /\ [][CopyNext]_vars

\* ------------------------------------------------------------------------
\* The configuration of the tree: branches and mappings are added, the tree
\* is reset and refreshed while branches come and go
\* ------------------------------------------------------------------------

\* Tree.Reset
Reset(t, branches) ==
    LET Cleared(u) == [u EXCEPT !.mapping = <<>>, !.mappingAll = <<>>, !.root = NewTree.root]
    IN Cleared(IF branches
               THEN [t EXCEPT !.peers = EmptyMap, !.branches = <<>>, !.branchesAll = <<>>]
               ELSE t)

\* The names of the branches of a list
BranchNames(bs) == {bs[i].branch : i \in 1..Len(bs)}

\* Tree.NotReachableBranches
NotReachableBranches(t) == BranchNames(t.branchesAll) \ BranchNames(t.branches)

\* Client.SendPing of Tree.Refresh for the peers the client has registered:
\* a registered peer has no connection when its fingerprint is not the one
\* of the branch (RegisterPeer deletes the connection), so the request dials
\* and compares the certificate of the branch with the registered
\* fingerprint
peerPing(peers, node, fault) ==
    IF fault = "" /\ node \in DOMAIN peers /\ peers[node] \notin {"", TreePing("").fp}
    THEN [fp |-> "", err |-> NodeError(ErrUntrustedTarget, node, FALSE)]
    ELSE TreePing(fault)

\* A ping that does not look at the registered fingerprint
blindPing(peers, node, fault) == TreePing(fault)

\* Client.SendRequest: a registered peer without a fingerprint gets the one
\* its branch presents on the first connection
acceptedPeers(peers, reached) ==
    [n \in DOMAIN peers |-> IF peers[n] = "" /\ n \in reached THEN TreePing("").fp ELSE peers[n]]

\* Tree.Refresh, the loop over branchesAll: pings[i] is what the transport
\* does to the ping of the entry i.  The result is addBranches, a map from
\* the name to the entry, the names of delBranches, and the peers of the
\* client after the pings
refreshPing(t, pings) ==
    LET nr == NotReachableBranches(t)
        Ok(i) == peerPing(t.peers, t.branchesAll[i].branch, pings[i]).err = NilError
        Adds == {i \in 1..Len(t.branchesAll) : Ok(i) /\ t.branchesAll[i].branch \in nr}
        Dels == {i \in 1..Len(t.branchesAll) : ~Ok(i) /\ t.branchesAll[i].branch \notin nr}
        LastOf(n) == CHOOSE i \in Adds :
                        /\ t.branchesAll[i].branch = n
                        /\ \A j \in Adds : t.branchesAll[j].branch = n => j <= i
    IN [add |-> [n \in {t.branchesAll[i].branch : i \in Adds} |-> t.branchesAll[LastOf(n)]],
        del |-> {t.branchesAll[i].branch : i \in Dels},
        peers |-> acceptedPeers(t.peers, {t.branchesAll[i].branch :
                                            i \in {j \in 1..Len(t.branchesAll) : pings[j] = ""}})]

\* Tree.Refresh, the loop that removes branches: it ranges over the slice
\* t.branches as it was when the loop began, n entries on the array arr,
\* while every removal moves the entries of the array and shortens
\* t.branches to len; t.branches[i+1:] panics once i+1 is beyond len
RECURSIVE refreshRemove(_, _, _, _)
refreshRemove(st, k, n, del) ==
    LET Shift(arr) == [j \in 1..Len(arr) |-> IF j >= k /\ j < st.len THEN arr[j + 1] ELSE arr[j]]
        Removed(peers) ==
            IF k > st.len
            THEN [st EXCEPT !.peers = peers, !.panic = TRUE]
            ELSE [st EXCEPT !.peers = peers, !.arr = Shift(@), !.len = @ - 1]
    IN IF k > n \/ st.panic THEN st
       ELSE IF st.arr[k].branch \in del
       THEN refreshRemove(Removed(MapDelete(st.peers, st.arr[k].branch)), k + 1, n, del)
       ELSE refreshRemove(st, k + 1, n, del)

\* Tree.Refresh, the loop over addBranches in the order ord of its map
RECURSIVE refreshAdd(_, _, _)
refreshAdd(t, add, ord) ==
    LET b == add[Head(ord)]
        Registered(peers) ==
            IF b.branch \in DOMAIN peers THEN peers ELSE MapPut(peers, b.branch, b.fingerprint)
    IN IF ord = <<>> THEN t
       ELSE refreshAdd([t EXCEPT !.peers = Registered(@), !.branches = Append(@, b)],
                       add, Tail(ord))

\* Tree.Refresh up to the release of the lock: the branches are pinged,
\* removed and added, the mappings are taken away.  What is left to do is to
\* add the mappings again one by one
refreshBranches(t, pings, ord) ==
    LET Removed(ch) ==
            refreshRemove([arr |-> t.branches, len |-> Len(t.branches), peers |-> ch.peers,
                           panic |-> FALSE],
                          1, Len(t.branches), ch.del)
        Emptied(u) == [u EXCEPT !.mapping = <<>>, !.mappingAll = <<>>, !.root = NewTree.root]
        Locked(ch, st) ==
            IF st.panic
            THEN [tree |-> [t EXCEPT !.branches = SubSeq(st.arr, 1, st.len),
                                     !.peers = st.peers],
                  panic |-> TRUE, mappings |-> <<>>]
            ELSE [tree |-> Emptied(refreshAdd([t EXCEPT !.branches = SubSeq(st.arr, 1, st.len),
                                                        !.peers = st.peers],
                                              ch.add, ord)),
                  panic |-> FALSE, mappings |-> t.mappingAll]
        Changed(ch) == Locked(ch, Removed(ch))
    IN Changed(refreshPing(t, pings))

\* The orders in which a map with the keys S is ranged over
Orders(S) ==
    {s \in [1..Cardinality(S) -> S] : \A i, j \in 1..Cardinality(S) : i # j => s[i] # s[j]}

MaxBranches == 2
Fingerprints == {"", fingerprint(RemoteCert), fingerprint("cert2")}
Pings == {"", "down"}

ConfigInit ==
    /\ tree = NewTree
    /\ remote \in {[b \in TreeBranches |-> [fs |-> RemoteHost(b), readonly |-> FALSE]]}
    /\ tlast = NoTreeOp
    /\ refresh = NoRefresh
    /\ LockQuiet
    /\ tcount = 0
    /\ TransportQuiet
    /\ hostfs = InitialHost
    /\ branch = [name |-> "b", rootPath |-> <<cR>>, readonly |-> FALSE]
    /\ pool = {}
    /\ last = NoRequest
    /\ served = 0

\* Tree.AddBranch with its ping, which reaches the branch or not
TreeAddBranch ==
    \E b \in TreeBranches, given \in Fingerprints, fault \in Pings :
      \E r \in {AddBranch([tree EXCEPT !.peers = acceptedPeers(@, IF fault = "" THEN {b} ELSE {})],
                          b, "rpc", given, peerPing(tree.peers, b, fault))} :
        /\ refresh.pc = "idle"
        /\ Len(tree.branchesAll) < MaxBranches
        /\ tree' = r.tree
        /\ tlast' = [NoTreeOp EXCEPT !.op = "addbranch", !.args = <<b, given, fault>>,
                                     !.err = r.err]
        /\ UNCHANGED <<remote, tcount, refresh, bvars, tvars, lvars>>

TreeAddMapping ==
    \E dir \in MapDirs, b \in TreeBranches, writable \in {TRUE} :
      \E r \in {AddMapping(tree, dir, b, writable)} :
        /\ refresh.pc = "idle"
        /\ Len(tree.mappingAll) < MaxMappings
        /\ tree' = r.tree
        /\ tlast' = [NoTreeOp EXCEPT !.op = "addmapping", !.args = <<dir, b, writable>>,
                                     !.err = r.err]
        /\ UNCHANGED <<remote, tcount, refresh, bvars, tvars, lvars>>

TreeReset ==
    \E branches \in BOOLEAN :
        /\ refresh.pc = "idle"
        /\ tree' = Reset(tree, branches)
        /\ tlast' = [NoTreeOp EXCEPT !.op = "reset", !.args = <<branches>>]
        /\ UNCHANGED <<remote, tcount, refresh, bvars, tvars, lvars>>

\* The last step of the tree was the return of a call of Tree.Refresh
ReturnedRefresh(op) == op.op \in {"refresh", "remap"} /\ op.ok

\* Tree.Refresh from its begin to the release of the lock; with no mapping
\* to add it has returned.  The call is recorded with its pings, the tree
\* it began with and whether it follows a Refresh with the same pings.
RefreshBranches ==
    \E pings \in [1..Len(tree.branchesAll) -> Pings] :
      \E ord \in Orders(DOMAIN refreshPing(tree, pings).add) :
        \E r \in {refreshBranches(tree, pings, ord)} :
          /\ refresh.pc = "idle"
          /\ tree' = r.tree
          /\ refresh' = IF r.panic
                        THEN [NoRefresh EXCEPT !.pc = "panic", !.old = tree.root]
                        ELSE IF r.mappings = <<>> THEN NoRefresh
                        ELSE [pc |-> "mappings", mappings |-> r.mappings, old |-> tree.root]
          /\ tlast' = [NoTreeOp EXCEPT !.op = "refresh", !.args = <<pings, ord>>,
                                       !.ok = ~r.panic /\ r.mappings = <<>>,
                                       !.call = [pings |-> pings, start |-> tree,
                                                 again |-> /\ ReturnedRefresh(tlast)
                                                           /\ tlast.call.pings = pings]]
          /\ UNCHANGED <<remote, tcount, bvars, tvars, lvars>>

\* Tree.Refresh, one AddMapping of its last loop; after the last one it
\* has returned
RefreshAddMapping ==
    LET m == Head(refresh.mappings) IN
      /\ refresh.pc = "mappings"
      /\ tree' = AddMapping(tree, m.path, m.branch, m.writeable).tree
      /\ refresh' = IF Tail(refresh.mappings) = <<>> THEN NoRefresh
                    ELSE [refresh EXCEPT !.mappings = Tail(@)]
      /\ tlast' = [NoTreeOp EXCEPT !.op = "remap", !.args = <<m>>,
                                   !.ok = Tail(refresh.mappings) = <<>>,
                                   !.call = tlast.call]
      /\ UNCHANGED <<remote, tcount, bvars, tvars, lvars>>

\* A call of Dir, ReadFile, WriteFile or ItemOp finds the branches of its
\* path under the read lock of the tree, which Refresh does not hold while
\* it adds the mappings
TreeResolve ==
    \E dir \in MapDirs, recursive \in {TRUE} :
      /\ refresh.pc # "panic"
      /\ tlast' = [NoTreeOp EXCEPT
                     !.op = "resolve", !.args = <<dir, recursive>>,
                     !.sent = findPathBranches(tree.root, <<>>, <<>>,
                                               createMappingPath(dir), recursive)]
      /\ UNCHANGED <<tree, remote, tcount, refresh, bvars, tvars, lvars>>

\* The configuration of the tree as a JSON text: the sequence of its tokens.
\* A string that holds a path is a token of its own kind, its value are the
\* characters of the path.
JPunct(c) == [k |-> "punct", v |-> c]
JString(s) == [k |-> "string", v |-> s]
JPath(p) == [k |-> "path", v |-> PathStr(p)]
JBool(b) == [k |-> "bool", v |-> b]

\* json.MarshalIndent of a map, the keys in their sorted order, and of a list
jsonObject(keys, vals) ==
    <<JPunct("{")>> \o Flatten([i \in 1..Len(keys) |-> <<JString(keys[i]), vals[i]>>])
    \o <<JPunct("}")>>

jsonListReversed(objs) ==
    <<JPunct("[")>> \o Flatten([i \in 1..Len(objs) |-> objs[Len(objs) + 1 - i]])
    \o <<JPunct("]")>>

jsonList(objs) == <<JPunct("[")>> \o Flatten(objs) \o <<JPunct("]")>>

\* Tree.Config
Config(t) ==
    LET Branch(b) == jsonObject(<<"branch", "fingerprint", "rpc">>,
                                <<JString(b.branch), JString(b.fingerprint), JString(b.rpc)>>)
        Mount(m) == jsonObject(<<"branch", "path", "writeable">>,
                               <<JString(m.branch), JPath(m.path), JBool(m.writeable)>>)
        bs == t.branches
    IN <<JPunct("{"), JString("branches")>>
       \o jsonList([i \in 1..Len(bs) |-> Branch(bs[i])])
       \o <<JString("tree")>>
       \o jsonList([i \in 1..Len(t.mapping) |-> Mount(t.mapping[i])])
       \o <<JPunct("}")>>

\* json.Unmarshal into map[string][]map[string]interface{}: an object of
\* lists of objects
IsPunct(doc, i, c) == i <= Len(doc) /\ doc[i].k = "punct" /\ doc[i].v = c
IsKey(doc, i) == i <= Len(doc) /\ doc[i].k = "string"
IsValue(doc, i) == i <= Len(doc) /\ doc[i].k # "punct"
NoParse == [ok |-> FALSE, next |-> 0, val |-> <<>>]

RECURSIVE parseMembers(_, _, _)
parseMembers(doc, i, obj) ==
    IF IsPunct(doc, i, "}") THEN [ok |-> TRUE, next |-> i + 1, val |-> obj]
    ELSE IF IsKey(doc, i) /\ IsValue(doc, i + 1)
    THEN parseMembers(doc, i + 2, MapPut(obj, doc[i].v, doc[i + 1]))
    ELSE NoParse

RECURSIVE parseObjects(_, _, _)
parseObjects(doc, i, acc) ==
    LET r == parseMembers(doc, i + 1, EmptyMap) IN
    IF IsPunct(doc, i, "]") THEN [ok |-> TRUE, next |-> i + 1, val |-> acc]
    ELSE IF IsPunct(doc, i, "{") /\ r.ok THEN parseObjects(doc, r.next, Append(acc, r.val))
    ELSE NoParse

RECURSIVE parseConf(_, _, _)
parseConf(doc, i, conf) ==
    LET r == parseObjects(doc, i + 2, <<>>) IN
    IF IsPunct(doc, i, "}") THEN [ok |-> TRUE, next |-> i + 1, val |-> conf]
    ELSE IF IsKey(doc, i) /\ IsPunct(doc, i + 1, "[") /\ r.ok
    THEN parseConf(doc, r.next, MapPut(conf, doc[i].v, r.val))
    ELSE NoParse

Unmarshal(doc) ==
    LET r == parseConf(doc, 2, EmptyMap) IN
    IF IsPunct(doc, 1, "{") /\ r.ok /\ r.next = Len(doc) + 1
    THEN [err |-> NilError, conf |-> r.val]
    ELSE [err |-> PlainError("unexpected end of JSON input"), conf |-> EmptyMap]

\* The components of the path that a string holds
RECURSIVE splitPath(_, _, _)
splitPath(chars, cur, acc) ==
    LET done == IF cur = <<>> THEN acc ELSE Append(acc, cur) IN
    IF chars = <<>> THEN done
    ELSE IF Head(chars) = "/" THEN splitPath(Tail(chars), <<>>, done)
    ELSE splitPath(Tail(chars), Append(cur, Head(chars)), acc)

\* The type assertion obj[key].(T) holds
Asserted(obj, key, kinds) == key \in DOMAIN obj /\ obj[key].k \in kinds

\* Tree.SetMapping, the branches and the mappings of the configuration are
\* added; the type assertion that fails panics
RECURSIVE setBranches(_, _, _, _)
setBranches(t, branches, pings, i) ==
    LET b == branches[i] IN
    IF i > Len(branches) THEN [tree |-> t, panic |-> FALSE]
    ELSE IF ~(\A key \in {"branch", "rpc", "fingerprint"} : Asserted(b, key, {"string"}))
    THEN [tree |-> t, panic |-> TRUE]
    ELSE setBranches(AddBranch(t, b["branch"].v, b["rpc"].v, b["fingerprint"].v,
                               TreePing(pings[i])).tree,
                     branches, pings, i + 1)

RECURSIVE setMounts(_, _, _)
setMounts(t, mounts, i) ==
    LET m == mounts[i] IN
    IF i > Len(mounts) THEN [tree |-> t, panic |-> FALSE]
    ELSE IF ~(/\ Asserted(m, "path", {"path"}) /\ Asserted(m, "branch", {"string"})
              /\ Asserted(m, "writeable", {"bool"}))
    THEN [tree |-> t, panic |-> TRUE]
    ELSE setMounts(AddMapping(t, splitPath(m["path"].v, <<>>, <<>>), m["branch"].v,
                              m["writeable"].v).tree,
                   mounts, i + 1)

\* Tree.SetMapping
SetMapping(t, config, pings) ==
    LET Of(conf, key) == IF key \in DOMAIN conf THEN conf[key] ELSE <<>>
        Mounted(r, err) == [tree |-> r.tree, err |-> err, panic |-> r.panic]
        Added(conf, r) ==
            IF r.panic THEN Mounted(r, NilError)
            ELSE Mounted(setMounts(r.tree, Of(conf, "tree"), 1), NilError)
        Parsed(u) ==
            IF u.err # NilError THEN [tree |-> t, err |-> u.err, panic |-> FALSE]
            ELSE Added(u.conf, setBranches(Reset(t, TRUE), Of(u.conf, "branches"), pings, 1))
    IN Parsed(Unmarshal(config))

\* The texts that SetMapping is given: the configuration of the tree, a text
\* that breaks off, the empty text, a text with a branch that has no name
ConfigTexts(t) ==
    {Config(t), Front(Config(t)), <<>>,
     <<JPunct("{"), JString("branches"), JPunct("["), JPunct("{"), JPunct("}"), JPunct("]"),
       JPunct("}")>>}

TreeSetMapping ==
    \E config \in ConfigTexts(tree), pings \in [1..Len(tree.branches) -> Pings] :
      \E r \in {SetMapping(tree, config, pings)} :
        /\ refresh.pc = "idle"
        /\ Len(tree.branches) >= 1
        /\ tree' = r.tree
        /\ tlast' = [NoTreeOp EXCEPT !.op = "setmapping", !.args = <<config, pings>>,
                                     !.err = r.err, !.ok = ~r.panic]
        /\ UNCHANGED <<remote, tcount, refresh, bvars, tvars, lvars>>

ConfigNext ==
    \/ TreeAddBranch
    \/ TreeAddMapping
    \/ TreeReset
    \/ RefreshBranches
    \/ RefreshAddMapping
    \/ TreeResolve
    \/ TreeSetMapping

SpecTreeConfig == ConfigInit /\ [][ConfigNext]_vars

\* ------------------------------------------------------------------------
\* The traversal of the mapping tree for a path
\* ------------------------------------------------------------------------

MaxTraverseMappings == 2
TraverseDirs == {<<>>, <<cS>>, <<cD>>, <<cD, cF>>}
TraversePaths ==
    {<<>>, <<cD>>, <<cS>>, <<cD, cF>>, <<cD, cX>>, <<cX, cD>>, <<<<>>, cD>>}

\* The trees with every branch added and at most k mappings
RECURSIVE TraverseTrees(_)
TraverseTrees(k) ==
    IF k = 0 THEN TreeConfigs(0)
    ELSE TraverseTrees(k - 1)
         \cup {AddMapping(t, dir, b, writable).tree :
                  t \in TraverseTrees(k - 1), dir \in TraverseDirs, b \in TreeBranches,
                  writable \in BOOLEAN}

TraverseInit ==
    /\ tree \in TraverseTrees(MaxTraverseMappings)
    /\ remote = [b \in TreeBranches |-> [fs |-> RemoteHost(b), readonly |-> FALSE]]
    /\ tlast = NoTreeOp
    /\ refresh = NoRefresh
    /\ LockQuiet
    /\ tcount = 0
    /\ TransportQuiet
    /\ hostfs = InitialHost
    /\ branch = [name |-> "b", rootPath |-> <<cR>>, readonly |-> FALSE]
    /\ pool = {}
    /\ last = NoRequest
    /\ served = 0

\* A call of findPathBranches on the root item, as Dir, ReadFile, WriteFile
\* and ItemOp make it
CallFindPathBranches ==
    \E dir \in TraversePaths, recursive \in BOOLEAN :
      /\ tlast' = [NoTreeOp EXCEPT
                     !.op = "find", !.args = <<dir, recursive>>,
                     !.sent = findPathBranches(tree.root, <<>>, <<>>,
                                               createMappingPath(dir), recursive)]
      /\ UNCHANGED <<tree, remote, tcount, refresh, bvars, tvars, lvars>>

TraverseNext == CallFindPathBranches

SpecTraverse == TraverseInit /\ [][TraverseNext]_vars

\* ------------------------------------------------------------------------
\* Calls of Tree.Refresh and Tree.AddMapping that run at the same time.
\* refresh holds per caller of Refresh its position and its locals; taken
\* is the list mappingAll as the call found it
\* ------------------------------------------------------------------------

RefreshCallers == {1, 2}
NoRefreshCall == [pc |-> "idle", mappings |-> <<>>, taken |-> <<>>]

\* The mappings that the callers of Refresh still have to add
Pending == Flatten([p \in 1..Cardinality(RefreshCallers) |-> refresh[p].mappings])

\* The caller that holds the lock of the tree for good: Refresh panicked
\* with the lock held
LockLost == \E p \in RefreshCallers : refresh[p].pc = "panic"

RefreshInit ==
    /\ tree \in TreeConfigs(0)
    /\ remote \in {[b \in TreeBranches |-> [fs |-> RemoteHost(b), readonly |-> FALSE]]}
    /\ tlast = NoTreeOp
    /\ refresh = [p \in RefreshCallers |-> NoRefreshCall]
    /\ LockQuiet
    /\ tcount = 0
    /\ TransportQuiet
    /\ hostfs = InitialHost
    /\ branch = [name |-> "b", rootPath |-> <<cR>>, readonly |-> FALSE]
    /\ pool = {}
    /\ last = NoRequest
    /\ served = 0

\* Tree.AddMapping by a caller of its own, a mapping that the tree does
\* not have yet
AddMappingCall ==
    \E dir \in MapDirs, b \in TreeBranches, writable \in {TRUE} :
      \E r \in {AddMapping(tree, dir, b, writable)} :
        /\ ~LockLost
        /\ Len(tree.mappingAll) + Len(Pending) < MaxMappings
        /\ [path |-> dir, branch |-> b, writeable |-> writable]
               \notin SeqToSet(tree.mappingAll \o Pending)
        /\ tree' = r.tree
        /\ tlast' = [NoTreeOp EXCEPT !.op = "addmapping", !.args = <<dir, b, writable>>,
                                     !.err = r.err]
        /\ UNCHANGED <<remote, tcount, refresh, bvars, tvars, lvars>>

\* Tree.Refresh of the caller p from its begin to the release of the lock
RefreshLocked ==
    \E p \in RefreshCallers, pings \in [1..Len(tree.branchesAll) -> Pings] :
      \E ord \in Orders(DOMAIN refreshPing(tree, pings).add) :
        \E r \in {refreshBranches(tree, pings, ord)} :
          /\ ~LockLost
          /\ refresh[p].pc = "idle"
          /\ tree' = r.tree
          /\ refresh' = [refresh EXCEPT ![p] =
                           IF r.panic THEN [NoRefreshCall EXCEPT !.pc = "panic"]
                           ELSE IF r.mappings = <<>> THEN NoRefreshCall
                           ELSE [pc |-> "mappings", mappings |-> r.mappings,
                                 taken |-> r.mappings]]
          /\ tlast' = [NoTreeOp EXCEPT !.op = "refresh", !.args = <<p, pings, ord>>,
                                       !.ok = ~r.panic /\ r.mappings = <<>>]
          /\ UNCHANGED <<remote, tcount, bvars, tvars, lvars>>

\* Tree.Refresh of the caller p, one AddMapping of its last loop; after the
\* last one the call has returned
RefreshMapping ==
    \E p \in RefreshCallers :
      LET m == Head(refresh[p].mappings) IN
        /\ ~LockLost
        /\ refresh[p].pc = "mappings"
        /\ tree' = AddMapping(tree, m.path, m.branch, m.writeable).tree
        /\ refresh' = [refresh EXCEPT ![p] =
                         IF Tail(refresh[p].mappings) = <<>> THEN NoRefreshCall
                         ELSE [refresh[p] EXCEPT !.mappings = Tail(@)]]
        /\ tlast' = [NoTreeOp EXCEPT !.op = "remap", !.args = <<p, m>>,
                                     !.ok = Tail(refresh[p].mappings) = <<>>]
        /\ UNCHANGED <<remote, tcount, bvars, tvars, lvars>>

RefreshNext == AddMappingCall \/ RefreshLocked \/ RefreshMapping

SpecRefresh == RefreshInit /\ [][RefreshNext]_vars

\* ------------------------------------------------------------------------
\* The lock of the tree: the methods of the tree as the sequences of their
\* lock operations and of their accesses to the lists and to the mapping
\* tree, run by callers that interleave
\* ------------------------------------------------------------------------

LockCallers == {1, 2}
NoCall == [method |-> "", pc |-> 0]

Acquire(do) == [do |-> do, field |-> ""]
Access(do, field) == [do |-> do, field |-> field]

\* Tree.AddMapping
addMappingCode ==
    <<Acquire("Lock"), Access("write", "mappingAll"), Access("write", "root"),
      Access("write", "mapping"), Acquire("Unlock")>>

\* Tree.NotReachableBranches
notReachableCode ==
    <<Acquire("RLock"), Acquire("RUnlock"), Access("read", "branches"),
      Access("read", "branchesAll")>>

\* Tree.Reset, Tree.AddBranch of a branch that is reached and of one that is
\* not, Tree.AddMapping, and Tree.Refresh with one mapping to add again
writerCode(method) ==
    CASE method = "Reset(true)" ->
           <<Access("write", "branches"), Access("write", "branchesAll"), Acquire("Lock"),
             Access("write", "mapping"), Access("write", "mappingAll"),
             Access("write", "root"), Acquire("Unlock")>>
      [] method = "Reset(false)" ->
           <<Acquire("Lock"), Access("write", "mapping"), Access("write", "mappingAll"),
             Access("write", "root"), Acquire("Unlock")>>
      [] method = "AddBranch" ->
           <<Access("write", "branchesAll"), Acquire("Lock"), Access("write", "branches"),
             Acquire("Unlock")>>
      [] method = "AddBranch(unreachable)" -> <<Access("write", "branchesAll")>>
      [] method = "AddMapping" -> addMappingCode
      [] method = "Refresh" ->
           notReachableCode
           \o <<Acquire("RLock"), Access("read", "branchesAll"), Acquire("RUnlock"),
                Acquire("Lock"), Access("write", "branches"), Access("read", "mappingAll"),
                Access("write", "mapping"), Access("write", "mappingAll"),
                Access("write", "root"), Acquire("Unlock")>>
           \o addMappingCode

\* Tree.Config, Tree.KnownBranches and Tree.NotReachableBranches
readerCode(method) ==
    CASE method = "Config" ->
           <<Acquire("RLock"), Access("read", "branches"), Access("read", "mapping"),
             Acquire("RUnlock")>>
      [] method = "KnownBranches" ->
           <<Acquire("RLock"), Acquire("RUnlock"), Access("read", "branchesAll")>>
      [] method = "NotReachableBranches" -> notReachableCode

\* Tree.Dir, Tree.ReadFile, Tree.WriteFile and Tree.ItemOp walk the mapping
\* tree
walkCode(method) == <<Acquire("RLock"), Access("read", "root"), Acquire("RUnlock")>>

\* Tree.CopyFile holds the read lock while it calls ReadFile for the source
\* and, through WriteFileFromBuffer, WriteFile for the destination; Tree.Sync
\* holds it while it calls Dir, ItemOp and CopyFile
nestedCode(method) ==
    LET copyFile == <<Acquire("RLock")>> \o walkCode("ReadFile") \o walkCode("WriteFile")
                    \o <<Acquire("RUnlock")>>
    IN IF method = "CopyFile" THEN copyFile
       ELSE <<Acquire("RLock")>> \o walkCode("Dir") \o walkCode("ItemOp") \o copyFile
            \o <<Acquire("RUnlock")>>

Writers ==
    {"Reset(true)", "Reset(false)", "AddBranch", "AddBranch(unreachable)", "AddMapping",
     "Refresh"}
Readers == {"Config", "KnownBranches", "NotReachableBranches"}
Walkers == {"Dir", "ReadFile", "WriteFile", "ItemOp"}
Nested == {"CopyFile", "Sync"}

CodeOf(method) ==
    IF method \in Writers THEN writerCode(method)
    ELSE IF method \in Readers THEN readerCode(method)
    ELSE IF method \in Nested THEN nestedCode(method)
    ELSE walkCode(method)

\* What the caller c does next
Instr(c) == CodeOf(callers[c].method)[callers[c].pc]
Running(c) == callers[c].pc > 0

\* The caller c has done its instruction; after the last one the method
\* has returned
Advance(c) ==
    callers' = [callers EXCEPT ![c] =
                  IF @.pc = Len(CodeOf(@.method)) THEN NoCall ELSE [@ EXCEPT !.pc = @ + 1]]

\* sync.RWMutex: no caller holds the lock, none waits for it, readers counts
\* per caller the read locks that it holds
FreeLock == [writer |-> 0, waiting |-> {}, readers |-> [c \in LockCallers |-> 0]]

LockInit ==
    /\ tree = NewTree
    /\ remote = [b \in TreeBranches |-> [fs |-> RemoteHost(b), readonly |-> FALSE]]
    /\ tlast = NoTreeOp
    /\ refresh = NoRefresh
    /\ treeLock = FreeLock
    /\ callers = [c \in LockCallers |-> NoCall]
    /\ tcount = 0
    /\ TransportQuiet
    /\ hostfs = InitialHost
    /\ branch = [name |-> "b", rootPath |-> <<cR>>, readonly |-> FALSE]
    /\ pool = {}
    /\ last = NoRequest
    /\ served = 0

\* A caller calls a method of the tree
CallMethod ==
    \E c \in LockCallers, method \in Writers \cup Readers \cup Walkers \cup Nested :
        /\ ~Running(c)
        /\ callers' = [callers EXCEPT ![c] = [method |-> method, pc |-> 1]]
        /\ UNCHANGED <<treeLock, tree, remote, tlast, tcount, refresh, bvars, tvars>>

\* sync.RWMutex.Lock, the writer announces itself: from now on RLock waits
Announces(c) ==
    /\ Running(c) /\ Instr(c).do = "Lock"
    /\ c \notin treeLock.waiting
    /\ treeLock' = [treeLock EXCEPT !.waiting = @ \cup {c}]
    /\ UNCHANGED <<callers, tree, remote, tlast, tcount, refresh, bvars, tvars>>

\* sync.RWMutex.Lock, the writer has the lock once no caller holds it
Locks(c) ==
    /\ Running(c) /\ Instr(c).do = "Lock"
    /\ c \in treeLock.waiting
    /\ treeLock.writer = 0 /\ \A r \in LockCallers : treeLock.readers[r] = 0
    /\ treeLock' = [treeLock EXCEPT !.writer = c, !.waiting = @ \ {c}]
    /\ Advance(c)
    /\ UNCHANGED <<tree, remote, tlast, tcount, refresh, bvars, tvars>>

Unlocks(c) ==
    /\ Running(c) /\ Instr(c).do = "Unlock"
    /\ treeLock' = [treeLock EXCEPT !.writer = 0]
    /\ Advance(c)
    /\ UNCHANGED <<tree, remote, tlast, tcount, refresh, bvars, tvars>>

\* sync.RWMutex.RLock waits while a caller holds the lock for writing or
\* waits for it, also when the caller of RLock holds a read lock already
RLocks(c) ==
    /\ Running(c) /\ Instr(c).do = "RLock"
    /\ treeLock.writer = 0 /\ treeLock.waiting = {}
    /\ treeLock' = [treeLock EXCEPT !.readers[c] = @ + 1]
    /\ Advance(c)
    /\ UNCHANGED <<tree, remote, tlast, tcount, refresh, bvars, tvars>>

RUnlocks(c) ==
    /\ Running(c) /\ Instr(c).do = "RUnlock"
    /\ treeLock' = [treeLock EXCEPT !.readers[c] = @ - 1]
    /\ Advance(c)
    /\ UNCHANGED <<tree, remote, tlast, tcount, refresh, bvars, tvars>>

\* The caller reads or writes a list or the mapping tree
Touches(c) ==
    /\ Running(c) /\ Instr(c).do \in {"read", "write"}
    /\ Advance(c)
    /\ UNCHANGED <<treeLock, tree, remote, tlast, tcount, refresh, bvars, tvars>>

\* A caller that is in a method does its next instruction
Proceeds(c) ==
    Announces(c) \/ Locks(c) \/ Unlocks(c) \/ RLocks(c) \/ RUnlocks(c) \/ Touches(c)

LockNext == CallMethod \/ \E c \in LockCallers : Proceeds(c)

SpecLock == LockInit /\ [][LockNext]_vars

\* A caller that is in a method goes on: the goroutine is scheduled, and the
\* lock is handed to the caller that waits for it whenever it is free
SpecLockFair == SpecLock /\ \A c \in LockCallers : SF_vars(Proceeds(c))

\* ------------------------------------------------------------------------
\* Requests that the RPC server of a branch executes at the same time:
\* rpc.Accept serves every connection and every request of a connection in
\* a goroutine of its own, RufsServer.Data and the request handler of the
\* branch take no lock.  callers holds per goroutine the write request that
\* it executes and its position in Branch.WriteFile
\* ------------------------------------------------------------------------

Goroutines == {1, 2}
MaxConcWrites == 3
ConcOffsets == {1, 2}
ConcPayloads == {<<7>>, <<8>>}
NoWrite == [pc |-> "idle", p |-> <<>>, o |-> 0, data |-> <<>>, exists |-> FALSE, size |-> 0]

BranchConcInit ==
    /\ hostfs = InitialHost
    /\ branch \in {[name |-> "b", rootPath |-> <<cR>>, readonly |-> ro] : ro \in BOOLEAN}
    /\ pool = {}
    /\ last = NoRequest
    /\ served = 0
    /\ TransportQuiet
    /\ tree = NewTree
    /\ remote = [b \in TreeBranches |-> [fs |-> RemoteHost(b), readonly |-> FALSE]]
    /\ tlast = NoTreeOp
    /\ refresh = NoRefresh
    /\ tcount = 0
    /\ treeLock = FreeLock
    /\ callers = [g \in Goroutines |-> NoWrite]

\* The answer to the write request of the goroutine g
WriteAnswered(g, err, n) ==
    /\ callers' = [callers EXCEPT ![g] = NoWrite]
    /\ last' = [NoRequest EXCEPT !.a = "write", !.api = "handler", !.p = callers[g].p,
                                 !.o = callers[g].o, !.err = err, !.resolved = TRUE]
    /\ served' = served + 1

\* A write request arrives: the RPC server starts a goroutine for it
WriteArrives ==
    \E g \in Goroutines, o \in ConcOffsets, data \in ConcPayloads :
        /\ callers[g].pc = "idle"
        /\ served + Cardinality({h \in Goroutines : callers[h].pc # "idle"}) < MaxConcWrites
        /\ callers' = [callers EXCEPT ![g] = [NoWrite EXCEPT !.pc = "stat", !.p = <<cF>>,
                                                             !.o = o, !.data = data]]
        /\ UNCHANGED <<hostfs, branch, pool, last, served, treeLock, tvars,
                       tree, remote, tlast, tcount, refresh>>

\* Branch.WriteFile up to os.Stat: the size of the file is taken
WriteStat ==
    \E g \in Goroutines :
        LET l == callers[g]
            csp == constructSubPath(branch, l.p)
            staterr == StatErr(hostfs, csp.path)
        IN
        /\ l.pc = "stat"
        /\ IF checkReadOnly(branch) # ""
           THEN WriteAnswered(g, checkReadOnly(branch), 0)
           ELSE IF csp.err # "" THEN WriteAnswered(g, csp.err, 0)
           ELSE IF staterr # "" /\ ~OsIsNotExist(staterr) THEN WriteAnswered(g, staterr, 0)
           ELSE /\ callers' = [callers EXCEPT ![g] =
                                 [l EXCEPT !.pc = "open", !.exists = staterr = "",
                                           !.size = IF staterr = ""
                                                    THEN Len(hostfs[csp.path].data) ELSE 0]]
                /\ UNCHANGED <<last, served>>
        /\ UNCHANGED <<hostfs, branch, pool, treeLock, tvars,
                       tree, remote, tlast, tcount, refresh>>

\* Branch.WriteFile from os.OpenFile on: the file is opened as it is now, not
\* truncated, and written from the position that the size taken by os.Stat
\* gives
WriteOpen ==
    \E g \in Goroutines :
        LET l == callers[g]
            subPath == constructSubPath(branch, l.p).path
            there == Exists(hostfs, subPath)
            cur == IF there THEN hostfs[subPath].data ELSE <<>>
            zeros == Zeros(ReadBufferSize)
            written ==
                IF ~l.exists
                THEN WriteAt(WriteAt(cur, 0, growFile(zeros, l.o)), l.o, l.data)
                ELSE IF l.size < l.o
                THEN WriteAt(WriteAt(cur, l.size, growFile(zeros, l.o - l.size)), l.o, l.data)
                ELSE WriteAt(cur, l.o, l.data)
        IN
        /\ l.pc = "open"
        /\ IF there /\ hostfs[subPath].dir
           THEN /\ WriteAnswered(g, IF l.exists THEN "" ELSE EISDIR, 0)
                /\ UNCHANGED hostfs
           ELSE IF l.exists /\ ~there
           THEN WriteAnswered(g, "", 0) /\ UNCHANGED hostfs
           ELSE /\ hostfs' = [q \in DOMAIN hostfs \cup {subPath} |->
                                 IF q = subPath THEN FileEntry(written) ELSE hostfs[q]]
                /\ WriteAnswered(g, "", Len(l.data))
        /\ UNCHANGED <<branch, pool, treeLock, tvars, tree, remote, tlast, tcount, refresh>>

BranchConcNext == WriteArrives \/ WriteStat \/ WriteOpen

SpecBranchConc == BranchConcInit /\ [][BranchConcNext]_vars

\* ------------------------------------------------------------------------
\* Deleting by pattern in a branch
\* ------------------------------------------------------------------------

\* What the host may hold below the root /r of the branch
DeleteEntries ==
    {<<cR, cF>>, <<cR, cX>>, <<cR, cD>>, <<cR, cD, cF>>, <<cR, cD, cX>>, <<cR, cD, cD>>}

\* The hosts: every entry lies in a directory, the entries of /r/d make /r/d
\* a directory
DeleteHosts ==
    {[q \in {<<>>, <<cR>>} \cup S |->
        IF q \in {<<>>, <<cR>>} \/ (q = <<cR, cD>> /\ \E e \in S : Len(e) = 3)
        THEN DirEntry ELSE FileEntry(<<1>>)] :
     S \in {T \in SUBSET DeleteEntries :
               /\ Cardinality(T) <= MaxEntries - 1
               /\ \A e \in T : Len(e) = 3 => <<cR, cD>> \in T}}

DeleteInit ==
    /\ hostfs \in DeleteHosts
    /\ branch = [name |-> "b", rootPath |-> <<cR>>, readonly |-> FALSE]
    /\ pool = {}
    /\ last = NoRequest
    /\ served = 0
    /\ TransportQuiet
    /\ TreeQuiet

\* The directories of the callers and the patterns
DeleteDirs == {<<>>, <<cD>>}
DeleteNames == {<<Star>>, <<<<"f", "*">>>>, <<<<"*", "x">>>>}

\* A request to delete by pattern
ReqDelete ==
    \E p \in DeleteDirs, nm \in DeleteNames :
        Serve([Ctrl("itemop", p) EXCEPT !.action = "delete", !.name = nm], <<>>)

DeleteNext == ReqDelete

SpecDelete == DeleteInit /\ [][DeleteNext]_vars

\* ------------------------------------------------------------------------
\* Properties of the branch engine
\* ------------------------------------------------------------------------

\* C1: a request either fails with "Requested path ... is outside of the
\* branch" or hands the operating system only the root of the branch or paths
\* below it.
C1_OperatesInsideRoot ==
    last.err = ErrOutside \/ \A p \in last.touched : IsUnder(branch.rootPath, p)

\* C7: on a read-only branch every write, write-from-reader and itemop
\* request fails with "Branch <name> is read-only" before a path is
\* resolved, and no file or directory changes.
C7_ReadOnlyRejectsWrites ==
    [][(branch.readonly /\ served' = served + 1 /\ last'.a \in {"write", "itemop"})
          => (/\ last'.err = ErrReadOnly
              /\ ~last'.resolved
              /\ last'.touched = {}
              /\ hostfs' = hostfs)]_vars

C7_Witness ==
    /\ branch.readonly
    /\ last.a = "itemop"
    /\ last.err = ErrReadOnly
    /\ served = MaxRequests

\* ------------------------------------------------------------------------
\* Properties of the transport
\* ------------------------------------------------------------------------

\* SendRequest of thread t returns the error e with this step
Returns(t, e) ==
    IF thr[t].op = "ping"
    THEN thr'[t].pc = "pingret" /\ thr'[t].rerr = e
    ELSE /\ thr'[t].pc = "idle"
         /\ result'.op = thr[t].op /\ result'.node = thr[t].node
         /\ result'.type = e.type /\ result'.detail = e.detail

\* Thread t takes this step
Moves(t) == thr'[t] # thr[t]

\* C2: when the peer has a non-empty expected fingerprint and the
\* certificate presented on the new connection hashes to another one,
\* SendRequest returns "Unexpected SSL certificate from target node" with
\* the peer name, the peer has no cached connection afterwards (the rejected
\* connection in particular is not cached) and the expected fingerprint is
\* the one it was.
C2_MismatchIsRejected ==
    [][\A t \in DOMAIN thr :
          LET n == thr[t].node
              expected == MapGet(client.fingerprints, n, "")
          IN (/\ thr[t].pc = "expected" /\ Moves(t)
              /\ n \in DOMAIN client.peers
              /\ expected # ""
              /\ expected # fingerprint(sockets[thr[t].sock].cert))
             => (/\ Returns(t, NodeError(ErrUntrustedTarget, n, FALSE))
                 /\ n \notin DOMAIN client'.conns
                 /\ \A m \in DOMAIN client'.conns : client'.conns[m] # thr[t].sock
                 /\ client'.fingerprints = client.fingerprints)]_vars

C2_Witness ==
    /\ result.op = "data" /\ result.node = "A"
    /\ result.type = ErrUntrustedTarget /\ result.detail = "A"
    /\ "A" \in DOMAIN client.peers
    /\ MapGet(client.fingerprints, "A", "") = fingerprint("cert1")
    /\ "A" \notin DOMAIN client.conns

\* C3: for a peer registered without a fingerprint the first established
\* connection stores the fingerprint of the presented certificate; from
\* then until the peer is removed the stored fingerprint stays what it is
\* and a new connection whose certificate hashes to another value is
\* rejected with "Unexpected SSL certificate from target node".
C3_PinnedFingerprintStays ==
    [][/\ \A n \in PeerNames :
             /\ (trust[n] = "open" /\ trust'[n] = "first")
                   => \E t \in DOMAIN thr :
                         /\ Moves(t) /\ thr[t].node = n
                         /\ client'.fingerprints[n] = fingerprint(sockets[thr[t].sock].cert)
             /\ (trust[n] = "first" /\ trust'[n] = "first")
                   => /\ n \in DOMAIN client'.fingerprints
                      /\ client'.fingerprints[n] = client.fingerprints[n]
       /\ \A t \in DOMAIN thr :
             LET n == thr[t].node IN
             (/\ thr[t].pc \in {"expected", "tofu"} /\ Moves(t)
              /\ trust[n] = "first"
              /\ client.fingerprints[n] # fingerprint(sockets[thr[t].sock].cert))
                => Returns(t, NodeError(ErrUntrustedTarget, n, FALSE))]_vars

\* C4: every cached connection belongs to a registered peer and, when the
\* expected fingerprint of the peer is non-empty, was established to a
\* server whose certificate hashes to that fingerprint.
C4_CachedConnectionsAreVerified ==
    \A n \in DOMAIN client.conns :
        /\ n \in DOMAIN client.peers
        /\ MapGet(client.fingerprints, n, "") # ""
              => /\ sockets[client.conns[n]].cert # ""
                 /\ fingerprint(sockets[client.conns[n]].cert) = client.fingerprints[n]

\* C5: Ping and Data answer without a token error only if the target is
\* registered in the process and the auth string of the token is the
\* SHA-512/224 of the caller name followed by the secret of the target; an
\* unregistered target gets "Unknown target node", a wrong auth string
\* "Invalid node token", and in both cases the data handler does not run.
C5_ServerChecksToken ==
    [][srv' # srv =>
          LET rq == srv'.request
              reg == nodes[srv'.addr]
              known == rq.target \in DOMAIN reg
              valid == known /\ rq.token.NodeAuth
                                  = Sum512Hex(rq.token.NodeName \o reg[rq.target].secret)
              ans == srv'.answer
          IN /\ (valid => ans.err \notin {ErrUnknownTarget, ErrInvalidToken})
             /\ (~known => ans = Answer(<<>>, ErrUnknownTarget, FALSE))
             /\ ((known /\ ~valid) => ans = Answer(<<>>, ErrInvalidToken, FALSE))
             /\ (valid /\ srv'.method = "Ping" => ans = Answer(<<"Pong">>, "", FALSE))
             /\ (valid /\ srv'.method = "Data"
                    => ans.invoked = reg[rq.target].handler)]_vars

C5_Witness ==
    /\ srv.method = "Data"
    /\ srv.request.target \in DOMAIN nodes[srv.addr]
    /\ nodes[srv.addr][srv.request.target].handler
    /\ srv.request.token.NodeAuth # <<"123">>
    /\ srv.answer = Answer(<<>>, ErrInvalidToken, FALSE)

\* C6: after a call that failed with "connection is shut down", EOF or
\* unexpected EOF the first call of a request is followed by the eviction of
\* the cached connection and one retry, the call of the retry is not
\* retried again, and after any other outcome SendRequest returns and the
\* cached connections stay.
C6_RetriesOnceOnClosedConnection ==
    [][\A t \in DOMAIN thr :
          (thr[t].pc = "after" /\ Moves(t)) =>
              IF thr[t].err \in ClosedErrors
              THEN IF thr[t].calls = 1
                   THEN /\ thr'[t].pc = "peers"
                        /\ thr[t].node \notin DOMAIN client'.conns
                   ELSE thr'[t].pc # "peers"
              ELSE /\ thr'[t].pc # "peers"
                   /\ client'.conns = client.conns]_vars

\* ------------------------------------------------------------------------
\* Properties of the tree
\* ------------------------------------------------------------------------

\* The items on the way from the root item along the directory d: the
\* lengths k for which every prefix of d up to k is an item
ItemsAlong(root, d) == {k \in 0..Len(d) : \A j \in 0..k : SubSeq(d, 1, j) \in DOMAIN root}

\* The mappings on the resolved path of d, from the root item downwards and
\* per item in the order in which they were added; rest is what is left
\* of d below the item
OnPath(root, d) ==
    Flatten([k \in 1..Cardinality(ItemsAlong(root, d)) |->
               [j \in 1..Len(root[SubSeq(d, 1, k - 1)]) |->
                   [branch |-> root[SubSeq(d, 1, k - 1)][j].branch,
                    writable |-> root[SubSeq(d, 1, k - 1)][j].writable,
                    item |-> SubSeq(d, 1, k - 1),
                    rest |-> SubSeq(d, k, Len(d))]]])

IsWritable(m) == m.writable
TreeStep(op) == tlast'.op = op /\ tcount' = tcount + 1

\* C8: a tree write sends the given offset and bytes to the writable
\* mappings on the resolved path, in the order of the mapping tree and as
\* long as no write fails; a mapping that is not writable gets no write;
\* when no mapping on the path is writable the call fails with the
\* not-writable error and nothing is sent.
C8_WriteReachesWritableBranches ==
    [][TreeStep("write") =>
         LET spath == tlast'.args[1]
             wr == SelectSeq(OnPath(tree.root, SplitDir(spath)), IsWritable)
             sent == tlast'.sent
         IN /\ Len(sent) <= Len(wr)
            /\ \A i \in 1..Len(sent) :
                  /\ sent[i].branch = wr[i].branch
                  /\ sent[i].ctrl.a = "write"
                  /\ sent[i].ctrl.o = tlast'.args[2]
                  /\ sent[i].data = tlast'.args[3]
                  /\ sent[i].ctrl.p = JoinRel(<<>>, wr[i].rest \o <<SplitFile(spath)>>)
                  /\ (i < Len(sent) => sent[i].err = NilError)
            /\ (Len(sent) < Len(wr) => sent # <<>> /\ sent[Len(sent)].err # NilError)
            /\ (wr = <<>> => /\ tlast'.err = PlainError(ErrNotWritable)
                             /\ remote' = remote)]_vars

\* A write reached two branches and skipped none of the writable ones
C8_Witness ==
    /\ tlast.op = "write"
    /\ Len(tlast.sent) = 2
    /\ tlast.sent[1].branch # tlast.sent[2].branch
    /\ tlast.err = NilError

\* C9: in a Dir result no tree path and, per tree path, no file name is
\* listed twice, and the entry of a name is the one of the first answer, in
\* the order of the requests, that held the name for that tree path.
C9_FirstBranchWinsInDir ==
    [][TreeStep("dir") =>
         LET r == tlast'
             Holds(i, d, name) ==
                 /\ r.sent[i].err = NilError
                 /\ \E m \in 1..Len(r.sent[i].res.dirs) :
                       /\ JoinAbs(r.sent[i].treePath, r.sent[i].res.dirs[m]) = d
                       /\ \E x \in 1..Len(r.sent[i].res.fis[m]) :
                             r.sent[i].res.fis[m][x].name = name
             First(d, name) ==
                 CHOOSE i \in 1..Len(r.sent) :
                     Holds(i, d, name) /\ \A h \in 1..(i - 1) : ~Holds(h, d, name)
             EntryOf(i, d, e) ==
                 \E m \in 1..Len(r.sent[i].res.dirs) :
                     /\ JoinAbs(r.sent[i].treePath, r.sent[i].res.dirs[m]) = d
                     /\ \E x \in 1..Len(r.sent[i].res.fis[m]) : r.sent[i].res.fis[m][x] = e
         IN /\ \A j1, j2 \in 1..Len(r.dirs) : r.dirs[j1] = r.dirs[j2] => j1 = j2
            /\ \A j \in 1..Len(r.dirs) :
                  /\ \A k1, k2 \in 1..Len(r.fis[j]) :
                        r.fis[j][k1].name = r.fis[j][k2].name => k1 = k2
                  /\ \A k \in 1..Len(r.fis[j]) :
                        (\E i \in 1..Len(r.sent) : Holds(i, r.dirs[j], r.fis[j][k].name))
                           => EntryOf(First(r.dirs[j], r.fis[j][k].name), r.dirs[j],
                                      r.fis[j][k])]_vars

\* Two branches answered with the same name for one tree path
C9_Witness ==
    /\ tlast.op = "dir"
    /\ \E i1, i2 \in 1..Len(tlast.sent) :
          /\ i1 < i2
          /\ tlast.sent[i1].branch # tlast.sent[i2].branch
          /\ tlast.sent[i1].err = NilError /\ tlast.sent[i2].err = NilError
          /\ \E m1 \in 1..Len(tlast.sent[i1].res.dirs), m2 \in 1..Len(tlast.sent[i2].res.dirs) :
                /\ JoinAbs(tlast.sent[i1].treePath, tlast.sent[i1].res.dirs[m1])
                      = JoinAbs(tlast.sent[i2].treePath, tlast.sent[i2].res.dirs[m2])
                /\ \E x1 \in 1..Len(tlast.sent[i1].res.fis[m1]),
                      x2 \in 1..Len(tlast.sent[i2].res.fis[m2]) :
                      tlast.sent[i1].res.fis[m1][x1].name = tlast.sent[i2].res.fis[m2][x2].name

\* C10: a tree read asks the mappings on the resolved path in order, with
\* the offset and the size of the call, until a read succeeds or answers
\* EOF; it returns the count, the bytes and the error of the last branch
\* asked, and the not-exists error when no branch was asked.
C10_ReadStopsAtFirstAnswer ==
    [][TreeStep("read") =>
         LET spath == tlast'.args[1]
             on == OnPath(tree.root, SplitDir(spath))
             sent == tlast'.sent
             Terminal(i) == sent[i].err = NilError \/ IsEOF(sent[i].err)
         IN /\ Len(sent) <= Len(on)
            /\ \A i \in 1..Len(sent) :
                  /\ sent[i].branch = on[i].branch
                  /\ sent[i].ctrl.a = "read"
                  /\ sent[i].ctrl.o = tlast'.args[2]
                  /\ sent[i].ctrl.s = ReadBufferSize
                  /\ sent[i].ctrl.p = JoinRel(<<>>, on[i].rest \o <<SplitFile(spath)>>)
                  /\ (i < Len(sent) => ~Terminal(i))
            /\ (Len(sent) < Len(on) => sent # <<>> /\ Terminal(Len(sent)))
            /\ IF sent = <<>>
               THEN /\ tlast'.err = NodeError(ErrRemoteAction, ErrNotExist, TRUE)
                    /\ tlast'.n = 0
               ELSE /\ tlast'.err = sent[Len(sent)].err
                    /\ IF sent[Len(sent)].err = NilError
                       THEN /\ tlast'.n = sent[Len(sent)].res.n
                            /\ tlast'.p = sent[Len(sent)].res.data
                       ELSE /\ tlast'.n = 0
                            /\ tlast'.p = Zeros(ReadBufferSize)
            /\ remote' = remote]_vars

\* A read skipped a branch without the file and returned the bytes of the
\* next one while a further branch was left unasked
C10_Witness ==
    /\ tlast.op = "read"
    /\ Len(tlast.sent) = 2
    /\ tlast.sent[1].err # NilError
    /\ tlast.err = NilError
    /\ tlast.n > 0

\* A call in which every branch that was asked gave an answer of its own
Answered(sent) ==
    \A i \in 1..Len(sent) : sent[i].err.type # ErrNodeComm /\ ~IsEOF(sent[i].err)

\* A read of the path at offset 0 that follows a successful write of the bytes
\* b at offset 0 of the same path; the buffer of the read is longer than b
ReadAfterWrite ==
    /\ TreeStep("read")
    /\ tlast.op = "write" /\ tlast.err = NilError
    /\ tlast.args[2] = 0
    /\ tlast'.args = <<tlast.args[1], 0>>
    /\ Len(tlast.args[3]) < ReadBufferSize
    /\ Answered(tlast'.sent)

\* The read returned exactly the bytes b
ReadGave(r, b) == r.err = NilError /\ r.n = Len(b) /\ SubSeq(r.p, 1, r.n) = b

\* The file of a mapping on the host of its branch
HostFile(m, file) == <<cR>> \o m.rest \o <<file>>

\* C11: a read at offset 0 into a buffer longer than b that follows a
\* successful write of b at offset 0 of the same path returns exactly b with
\* the count len(b), for every previous content and every mapping.
C11_ReadReturnsWritten ==
    [][ReadAfterWrite => ReadGave(tlast', tlast.args[3])]_vars

\* C11, amended: the read returns exactly b when the first mapping on the
\* path whose branch holds the file is writable and the file on that branch
\* is not longer than b, that is the write replaced all it held before.
C11_ReadReturnsWrittenOverShorter ==
    [][ReadAfterWrite =>
         LET b == tlast.args[3]
             file == SplitFile(tlast.args[1])
             on == OnPath(tree.root, SplitDir(tlast.args[1]))
             Holds(i) == /\ HostFile(on[i], file) \in DOMAIN remote[on[i].branch].fs
                         /\ ~remote[on[i].branch].fs[HostFile(on[i], file)].dir
             Firsts == {i \in 1..Len(on) : Holds(i) /\ \A h \in 1..(i - 1) : ~Holds(h)}
         IN \A i \in Firsts :
               (/\ on[i].writable
                /\ Len(remote[on[i].branch].fs[HostFile(on[i], file)].data) <= Len(b))
                  => ReadGave(tlast', b)]_vars

\* A read returned the bytes that the write before it had put into a file
\* which did not exist on the branch
C11_Witness ==
    /\ tlast.op = "read" /\ tcount = 2
    /\ tlast.args = <<<<cD, cF>>, 0>>
    /\ tlast.err = NilError
    /\ tlast.n = 1 /\ tlast.p[1] = 7
    /\ Len(tlast.sent) = 1 /\ tlast.sent[1].branch = "b1"

\* A ReadFileToBuffer of the path that follows a WriteFileFromBuffer of the
\* same path which returned without error; every branch answered the reads
StreamedBack ==
    /\ TreeStep("readto")
    /\ tlast.op = "writefrom" /\ tlast.err = NilError
    /\ tlast'.args = <<tlast.args[1], TRUE>>

\* C12: after WriteFileFromBuffer of a source returned without error,
\* ReadFileToBuffer of the same path returns without error and hands the
\* sink exactly the bytes of the source, for every source and every previous
\* content of the destination; after an empty source the file exists with
\* no bytes.
C12_StreamRoundTrip ==
    [][StreamedBack => tlast'.err = NilError /\ tlast'.p = tlast.args[2].data]_vars

\* C13: a write request at an offset behind the end of the file (for a new
\* file: an offset above 0) leaves every byte between the old end and the
\* offset zero, whatever the branch served before.
C13_GapIsZero ==
    [][(served' = served + 1 /\ last'.a = "write" /\ last'.api = "handler"
        /\ last'.err = "")
         => \A q \in last'.touched :
               (q \in DOMAIN hostfs' /\ ~hostfs'[q].dir)
                  => LET old == IF q \in DOMAIN hostfs THEN hostfs[q].data ELSE <<>>
                     IN \A i \in (Len(old) + 1)..last'.o : hostfs'[q].data[i] = 0]_vars

\* The answers of the branches of an item operation
Succeeded(s) == s.err = NilError /\ s.res.ok
NotFound(s) == s.err.isNotExist
Failed(s) == s.err # NilError /\ ~s.err.isNotExist

\* What C16 says of the requests and of the two errors: the operation goes
\* to the writable mappings on the resolved path only; without a writable
\* mapping the result is the not-writable error; when every writable
\* mapping answered not-exists it is the not-exists error
ItemOpReachesWritable ==
    LET wr == SelectSeq(OnPath(tree.root, tlast'.args[1]), IsWritable)
        sent == tlast'.sent
    IN /\ Len(sent) <= Len(wr)
       /\ \A i \in 1..Len(sent) :
             /\ sent[i].branch = wr[i].branch
             /\ sent[i].ctrl.a = "itemop"
             /\ sent[i].ctrl.p = JoinRel(<<>>, wr[i].rest)
             /\ sent[i].ctrl.action = tlast'.args[2].action
             /\ sent[i].ctrl.name = tlast'.args[2].name
       /\ (wr = <<>> => tlast'.err = PlainError(ErrNotWritable) /\ remote' = remote)
       /\ (wr # <<>> /\ Len(sent) = Len(wr) /\ (\A i \in 1..Len(sent) : NotFound(sent[i]))
             => tlast'.err = NodeError(ErrRemoteAction, ErrNotExist, TRUE))

\* C16: an item operation goes to the writable mappings on the resolved
\* path only; all mappings not writable gives the not-writable error, all
\* writable ones answering not-exists gives the not-exists error, and
\* otherwise the result is true with no error when at least one branch
\* succeeded.
C16_ItemOpAggregates ==
    [][TreeStep("itemop") =>
         /\ ItemOpReachesWritable
         /\ ((\E i \in 1..Len(tlast'.sent) : Succeeded(tlast'.sent[i]))
               => tlast'.ok /\ tlast'.err = NilError)]_vars

\* C16, amended: the operation stops at the first answer that is an error
\* other than not-exists and returns that error together with the result so
\* far; the result is true with no error when at least one branch succeeded
\* and no branch answered with such an error.
C16_ItemOpAggregatesUntilError ==
    [][TreeStep("itemop") =>
         LET wr == SelectSeq(OnPath(tree.root, tlast'.args[1]), IsWritable)
             sent == tlast'.sent
         IN /\ ItemOpReachesWritable
            /\ \A i \in 1..(Len(sent) - 1) : ~Failed(sent[i])
            /\ (Len(sent) < Len(wr) => sent # <<>> /\ Failed(sent[Len(sent)]))
            /\ tlast'.ok = (\E i \in 1..Len(sent) : Succeeded(sent[i]))
            /\ (sent # <<>> /\ Failed(sent[Len(sent)])
                  => tlast'.err = sent[Len(sent)].err)
            /\ ((\E i \in 1..Len(sent) : Succeeded(sent[i]))
                /\ (\A i \in 1..Len(sent) : ~Failed(sent[i]))
                  => tlast'.ok /\ tlast'.err = NilError)]_vars

\* One branch answered not-exists, another one succeeded, and the operation
\* returned true without an error
C16_Witness ==
    /\ tlast.op = "itemop"
    /\ Len(tlast.sent) = 2
    /\ NotFound(tlast.sent[1])
    /\ Succeeded(tlast.sent[2])
    /\ tlast.ok /\ tlast.err = NilError

\* The directories and files below the root of the branch on a host, with
\* the content of the files
HostListing(fs) ==
    {<<SubSeq(p, 2, Len(p)), fs[p].dir, fs[p].data>> :
        p \in {q \in DOMAIN fs : Len(q) >= 2 /\ q[1] = cR}}

\* A recursive Sync of /s to /d that no failure of the transport disturbed
\* returned without error
SyncedAll ==
    /\ TreeStep("sync")
    /\ tlast'.args[3] /\ tlast'.args[4]
    /\ tlast'.err = NilError

\* C14: after a recursive sync that returned without error the source and
\* the destination hold the same directories and the same files with the same
\* content, for every initial content of the destination.
C14_SyncMakesEqual ==
    [][SyncedAll => HostListing(remote'["b1"].fs) = HostListing(remote'["b2"].fs)]_vars

\* The entries of the log of a Sync that are operations on the tree
IsDone(e) == e.k = "done"
Changes(e) == IsDone(e) /\ e.op \in {"mkdir", "copy", "delete"}

\* The source of the copy to the destination d
SourceOf(d) == <<cS>> \o SubSeq(d, 2, Len(d))

\* C15: Sync stops at the first failing operation, returns its error and
\* issues no mkdir, copy or delete after it; after a failed copy the callback
\* has received a 'Copy file' notification with the source and the
\* destination of that copy.
C15_SyncStopsAtFirstError ==
    [][TreeStep("sync") =>
         LET log == tlast'.log
         IN /\ \A i \in 1..Len(log) :
                  (IsDone(log[i]) /\ log[i].err # NilError) =>
                     /\ tlast'.err = log[i].err
                     /\ \A j \in (i + 1)..Len(log) : ~IsDone(log[j])
                     /\ log[i].op = "copy" =>
                           \E j \in (i + 1)..Len(log) :
                              /\ log[j].k = "note" /\ log[j].op = SyncCopyFile
                              /\ log[j].d = log[i].d /\ log[j].s = SourceOf(log[i].d)
            /\ tlast'.err # NilError =>
                  \E i \in 1..Len(log) : IsDone(log[i]) /\ log[i].err = tlast'.err]_vars

\* A copy failed after Sync had changed the destination, while the source
\* had more that the destination lacked
C15_Witness ==
    /\ tlast.op = "sync" /\ tlast.err # NilError
    /\ \E i \in 1..Len(tlast.log) :
          /\ tlast.log[i].k = "done" /\ tlast.log[i].op = "copy"
          /\ tlast.log[i].err # NilError
          /\ \E j \in 1..(i - 1) : Changes(tlast.log[j]) /\ tlast.log[j].err = NilError
    /\ HostListing(remote["b1"].fs) # HostListing(remote["b2"].fs)


\* ------------------------------------------------------------------------
\* Properties of the configuration of the tree
\* ------------------------------------------------------------------------

\* A step in which Refresh pings, removes and adds branches
RefreshStep == refresh.pc = "idle" /\ tlast'.op = "refresh"

\* The names of branchesAll whose pings all ended as ok says
Pinged(t, pings, ok) ==
    {n \in BranchNames(t.branchesAll) :
        \A i \in 1..Len(t.branchesAll) :
           t.branchesAll[i].branch = n
              => ((peerPing(t.peers, n, pings[i]).err = NilError) <=> ok)}

\* C17: after Refresh the reachable branches and the registered peers are
\* the branches whose ping succeeded and none whose ping failed, and Refresh
\* completes however many branches changed.
C17_RefreshFollowsPings ==
    [][RefreshStep =>
         /\ refresh'.pc # "panic"
         /\ \A n \in Pinged(tree, tlast'.args[1], TRUE) :
               n \in BranchNames(tree'.branches) /\ n \in DOMAIN tree'.peers
         /\ \A n \in Pinged(tree, tlast'.args[1], FALSE) :
               n \notin BranchNames(tree'.branches) /\ n \notin DOMAIN tree'.peers]_vars

\* The mapping tree that holds the mappings ms in their order
TreeOf(ms) ==
    LET At(i) == createMappingPath(ms[i].path)
        Items == UNION {{SubSeq(At(i), 1, k) : k \in 0..Len(At(i))} : i \in 1..Len(ms)}
        Here(item) == {i \in 1..Len(ms) : At(i) = item}
        Nth(S, k) == CHOOSE i \in S : Cardinality({j \in S : j <= i}) = k
    IN [item \in Items \cup {<<>>} |->
          [k \in 1..Cardinality(Here(item)) |->
             [branch |-> ms[Nth(Here(item), k)].branch,
              writable |-> ms[Nth(Here(item), k)].writeable]]]

\* The mappings of ms whose branch is one of names
MappingsOf(ms, names) ==
    LET Of(m) == m.branch \in names IN SelectSeq(ms, Of)

\* No call of Refresh is under way
Settled == refresh.pc = "idle"

\* Refresh has just returned
Refreshed == Settled /\ tlast.op \in {"refresh", "remap"} /\ tlast.ok

\* C18: whenever no call is under way the mapping tree holds, in their order,
\* exactly the entries of mappingAll whose branch is reachable.
C18_TreeIsReplayOfReachable ==
    Settled => tree.root = TreeOf(MappingsOf(tree.mappingAll, BranchNames(tree.branches)))

\* C18, amended: whenever no call is under way the mapping tree holds, in
\* their order, the entries of the list mapping, all of them entries of
\* mappingAll with a reachable branch; when Refresh has just returned these
\* are all the entries of mappingAll with a reachable branch.
C18_TreeIsReplayOfMapping ==
    /\ Settled =>
         /\ tree.root = TreeOf(tree.mapping)
         /\ \A i \in 1..Len(tree.mapping) :
               /\ tree.mapping[i].branch \in BranchNames(tree.branches)
               /\ \E j \in 1..Len(tree.mappingAll) : tree.mappingAll[j] = tree.mapping[i]
    /\ Refreshed =>
         tree.root = TreeOf(MappingsOf(tree.mappingAll, BranchNames(tree.branches)))

\* Refresh returned with a mapping of a reachable branch in the tree and a
\* mapping of a branch out of reach left out of it
C18_Witness ==
    /\ Refreshed /\ tlast.op = "remap"
    /\ Len(tree.mapping) > 0
    /\ Len(tree.mappingAll) > Len(tree.mapping)

\* C19: a call that finds the branches of its path while Refresh is under
\* way finds them in the tree as it was before the refresh or in the tree
\* with all mappings added again.
C19_ResolveSeesWholeTree ==
    [][(tlast'.op = "resolve" /\ refresh.pc = "mappings") =>
         LET Found(root) ==
                 findPathBranches(root, <<>>, <<>>, createMappingPath(tlast'.args[1]),
                                  tlast'.args[2])
             rebuilt == TreeOf(MappingsOf(tree.mappingAll \o refresh.mappings,
                                          DOMAIN tree.peers))
         IN tlast'.sent \in {Found(refresh.old), Found(rebuilt)}]_vars

\* A step of AddBranch
AddBranchStep == refresh.pc = "idle" /\ tlast'.op = "addbranch"

\* What every AddBranch does: the branch is appended to branchesAll; the
\* peer is registered with the fingerprint of the ping and appended to
\* branches only after a ping that succeeded with the given fingerprint
\* empty or equal to the one of the ping; a given fingerprint that differs
\* is rejected as unexpected and leaves branches as they were
AddBranchAdds ==
    LET b == tlast'.args[1]
        given == tlast'.args[2]
        answered == peerPing(tree.peers, b, tlast'.args[3]).err = NilError
        seen == fingerprint(RemoteCert)
    IN /\ Len(tree'.branchesAll) = Len(tree.branchesAll) + 1
       /\ SubSeq(tree'.branchesAll, 1, Len(tree.branchesAll)) = tree.branchesAll
       /\ tree'.branchesAll[Len(tree'.branchesAll)].branch = b
       /\ (tree'.branches # tree.branches \/ DOMAIN tree'.peers # DOMAIN tree.peers) =>
             /\ answered /\ given \in {"", seen}
             /\ tree'.peers = MapPut(tree.peers, b, seen)
             /\ tree'.branches =
                   Append(tree.branches,
                          [branch |-> b, rpc |-> "rpc", fingerprint |-> seen])
       /\ (answered /\ given \notin {"", seen}) =>
             /\ tlast'.err.detail = "Remote branch has an unexpected fingerprint"
             /\ tree'.branches = tree.branches

\* The branch of the AddBranch answered the ping and the given fingerprint
\* is not the one it presented
Mismatched ==
    /\ peerPing(tree.peers, tlast'.args[1], tlast'.args[3]).err = NilError
    /\ tlast'.args[2] \notin {"", fingerprint(RemoteCert)}

AddMappingStep == refresh.pc = "idle" /\ tlast'.op = "addmapping"

\* C21: AddMapping for a branch out of the reachable set returns 'Unknown
\* target node', leaves the mapping tree and the list mapping as they were
\* and appends the request to mappingAll; for a reachable branch it appends
\* the branch with its flag at the end of the list of the addressed item and
\* the request to both lists.
C21_AddMapping ==
    [][AddMappingStep =>
         LET m == [path |-> tlast'.args[1], branch |-> tlast'.args[2],
                   writeable |-> tlast'.args[3]]
             item == createMappingPath(m.path)
             before == IF item \in DOMAIN tree.root THEN tree.root[item] ELSE <<>>
         IN /\ tree'.mappingAll = Append(tree.mappingAll, m)
            /\ IF m.branch \in BranchNames(tree.branches)
               THEN /\ tlast'.err = NilError
                    /\ tree'.mapping = Append(tree.mapping, m)
                    /\ tree'.root[item] =
                          Append(before, [branch |-> m.branch, writable |-> m.writeable])
                    /\ \A it \in DOMAIN tree.root \ {item} : tree'.root[it] = tree.root[it]
               ELSE /\ tlast'.err.detail = ErrUnknownTarget
                    /\ tree'.mapping = tree.mapping
                    /\ tree'.root = tree.root]_vars

\* A second branch was mapped at an item that had a branch already
C21_Witness ==
    /\ tlast.op = "addmapping" /\ tlast.err = NilError
    /\ Len(tree.root[createMappingPath(tlast.args[1])]) = 2
    /\ tree.root[createMappingPath(tlast.args[1])][2].branch = tlast.args[2]
    /\ tree.root[createMappingPath(tlast.args[1])][1].branch # tlast.args[2]

\* C26: for every item of the mapping tree that Dir visits at or below the
\* requested path, each name of a child of the item that matches the pattern
\* is listed exactly once in the listing of the item's tree path: as the
\* entry a branch returned there under that name if there is one, otherwise
\* as a directory entry of size 0 that comes from no branch.
C26_PseudoDirsListed ==
    [][TreeStep("dir") =>
         LET r == tlast'
             Visited == {it \in DOMAIN tree.root :
                            it = r.args[1] \/ (r.args[2] /\ HasPrefix(it, r.args[1]))}
             ChildNames(it) == {Last(q) : q \in Children(tree.root, it)}
             Returned(it, n) ==
                 UNION {UNION {{r.sent[i].res.fis[m][x] :
                                  x \in {y \in 1..Len(r.sent[i].res.fis[m]) :
                                            r.sent[i].res.fis[m][y].name = n}} :
                               m \in {l \in 1..Len(r.sent[i].res.dirs) :
                                         JoinAbs(r.sent[i].treePath, r.sent[i].res.dirs[l]) = it}} :
                        i \in {h \in 1..Len(r.sent) : r.sent[h].err = NilError}}
             Listed(it, n) ==
                 UNION {{<<j, k>> : k \in {y \in 1..Len(r.fis[j]) : r.fis[j][y].name = n}} :
                        j \in {l \in 1..Len(r.dirs) : r.dirs[l] = it}}
         IN \A it \in Visited : \A n \in ChildNames(it) :
               MatchString(r.args[3], n) =>
                  /\ Cardinality(Listed(it, n)) = 1
                  /\ \A at \in Listed(it, n) :
                        IF Returned(it, n) # {}
                        THEN r.fis[at[1]][at[2]] \in Returned(it, n)
                        ELSE r.fis[at[1]][at[2]] = PseudoDir(n)]_vars

\* Dir listed a mapping component that no branch has as a directory, under a
\* pattern that does not match every name
C26_Witness ==
    /\ tlast.op = "dir" /\ tlast.err = NilError
    /\ tlast.args[3] # PatAll
    /\ \E j \in 1..Len(tlast.dirs) : \E k \in 1..Len(tlast.fis[j]) :
          tlast.fis[j][k] = PseudoDir(cD)

\* ------------------------------------------------------------------------
\* Properties of copying
\* ------------------------------------------------------------------------

\* C22: Copy ends the whole batch at the first error.  If Stat or the
\* expansion of a source fails no file is copied and the error names the
\* source; if the copy of a file fails no file is copied after it and the
\* error is 'Cannot copy <src> to <dst>: ...'; Copy returns without error
\* only if no call of the tree failed.
C22_CopyAbortsAtFirstError ==
    [][TreeStep("copy") =>
         LET log == tlast'.log
             FailedCalls == {i \in 1..Len(log) : log[i].err # NilError}
         IN /\ \A i \in FailedCalls :
                  IF log[i].at = "copy"
                  THEN /\ \A j \in (i + 1)..Len(log) : log[j].at # "copy"
                       /\ tlast'.err = CannotCopy(log[i].path, tlast'.args[2], log[i].err)
                  ELSE /\ \A j \in 1..Len(log) : log[j].at # "copy"
                       /\ tlast'.err # NilError
                       /\ tlast'.err.detail[1] = "Cannot stat"
                       /\ tlast'.err.detail[2] = log[i].src
            /\ tlast'.err = NilError => FailedCalls = {}]_vars

\* C23: CopyFile of an empty file to a path where nothing is yet, which
\* the transport does not disturb, returns without error and without a fault, with a callback and without
\* one: it has written the destination once, with no bytes at offset 0, the
\* destination is an empty file, and the callback, if there is one, has
\* received the count 0 and nothing else.
C23_CopyFileOfEmptySource ==
    [][(/\ TreeStep("copyfile")
        /\ tlast'.args[1] = <<cD, cD>> /\ tlast'.args[4]
        /\ <<cR, cD>> \in DOMAIN remote["b1"].fs
        /\ remote["b1"].fs[<<cR, cD>>] = FileEntry(<<>>)
        /\ <<cR, cX>> \notin DOMAIN remote["b1"].fs
        /\ ~remote["b1"].readonly)
         => /\ tlast'.ok /\ tlast'.err = NilError
            /\ Len(tlast'.sent) = 1
            /\ tlast'.sent[1].data = <<>> /\ tlast'.sent[1].ctrl.o = 0
            /\ remote'["b1"].fs[<<cR, cX>>] = FileEntry(<<>>)
            /\ tlast'.args[3] => tlast'.log = <<0>>]_vars

\* ------------------------------------------------------------------------
\* Properties of deleting by pattern
\* ------------------------------------------------------------------------

\* A delete with a pattern was served without error
DeletedByPattern ==
    /\ served' = served + 1
    /\ last'.a = "itemop" /\ ContainsStar(PathStr(last'.name))
    /\ last'.err = ""

\* C24: a delete whose name has a '*' removes exactly the entries in and
\* below the directory of the caller whose name matches the pattern, with
\* what they hold, each found relative to the directory of the caller,
\* whether that is the root of the branch or a directory below it; nothing
\* outside the directory of the caller is removed.
C24_DeleteByPattern ==
    [][DeletedByPattern =>
         LET caller == branch.rootPath \o last'.p
             Matching == {m \in DOMAIN hostfs :
                             /\ IsUnder(caller, m) /\ m # caller
                             /\ GlobMatch(SplitFile(last'.name), Last(m))}
             Gone == {q \in DOMAIN hostfs : \E m \in Matching : IsUnder(m, q)}
         IN hostfs' = [q \in DOMAIN hostfs \ Gone |-> hostfs[q]]]_vars

\* ------------------------------------------------------------------------
\* Properties of the removal of a peer
\* ------------------------------------------------------------------------

\* The first step of a call of op for the node n
CallStep(op, n) == credit' = credit - 1 /\ result'.op = op /\ result'.node = n

\* C25: after RemovePeer of a name the name has no address, no fingerprint
\* and no connection in the maps of the client, and the connection that was
\* kept for it is closed: no open connection is left behind; SendData to a
\* name that is not registered returns 'Unknown peer' at once and leaves the
\* client, the connections and the network as they are.
C25_RemovePeerClosesConnection ==
    [][\A n \in Names :
          /\ CallStep("remove", n) =>
                /\ n \notin DOMAIN client'.peers
                /\ n \notin DOMAIN client'.conns
                /\ n \notin DOMAIN client'.fingerprints
                /\ (n \in DOMAIN client.conns /\ 0 \notin DOMAIN sockets)
                      => 0 \notin DOMAIN sockets'
          /\ (CallStep("data", n) /\ n \notin DOMAIN client.peers) =>
                /\ result'.type = "Unknown peer" /\ ~result'.ok
                /\ thr' = thr
                /\ client' = client /\ sockets' = sockets /\ network' = network]_vars


\* ---------------------------------------------------------------------------
\* Properties of the configuration text
\* ---------------------------------------------------------------------------

\* SetMapping is given the configuration of the tree and every branch answers
SetMappingOfConfig ==
    /\ tlast'.op = "setmapping"
    /\ tlast'.args[1] = Config(tree)
    /\ \A i \in DOMAIN tlast'.args[2] : tlast'.args[2][i] = ""

\* The reachable branches, the list of mappings and the mapping tree are the
\* ones before the call
SameTree ==
    /\ tree'.branches = tree.branches
    /\ tree'.mapping = tree.mapping
    /\ tree'.root = tree.root

\* A text that is not valid JSON returns an error and leaves the tree as it is
InvalidConfigRejected ==
    tlast'.op = "setmapping" /\ Unmarshal(tlast'.args[1]).err # NilError
        => tlast'.err # NilError /\ tree' = tree

\* Every reachable branch is recorded with the fingerprint that it presents
PinnedAsPresented ==
    \A i \in DOMAIN tree.branches : tree.branches[i].fingerprint = fingerprint(RemoteCert)

OthersBusy(t) == \E u \in DOMAIN thr \ {t} : thr[u].pc # "idle"

\* C28: when several requests run at the same time on one client, the request
\* whose first call fails with "connection is shut down", EOF or unexpected
\* EOF is retried, the request whose second call fails so is not retried
\* again, and no request makes more than two calls.
C28_ConcurrentRequestsRetryOnce ==
    [][\A t \in DOMAIN thr :
          (Moves(t) /\ OthersBusy(t) /\ thr[t].pc = "after" /\ thr[t].err \in ClosedErrors)
              => /\ (thr'[t].pc = "peers") = (thr[t].calls = 1)
                 /\ thr[t].calls <= 2]_vars


\* ---------------------------------------------------------------------------
\* Properties of concurrent refreshes
\* ---------------------------------------------------------------------------

\* The entries of before are in after, once each and in the same order
Preserved(before, after) == SelectSeq(after, LAMBDA m : m \in SeqToSet(before)) = before

\* The call of Refresh of the caller p returns
RefreshReturns(p) == refresh[p].pc = "mappings" /\ refresh'[p].pc = "idle"

\* C29: when a call of Refresh returns, the entries that mappingAll held
\* when the call began are in mappingAll, none lost or duplicated and in the
\* same relative order, also when another Refresh or AddMapping ran at the
\* same time.
C29_RefreshPreservesMappingAll ==
    [][\A p \in RefreshCallers :
          RefreshReturns(p) => Preserved(refresh[p].taken, tree'.mappingAll)]_vars


\* ---------------------------------------------------------------------------
\* Properties of the lock of the tree
\* ---------------------------------------------------------------------------

\* The caller c reads or writes a list or the mapping tree in this step
Accesses(c, do) == Running(c) /\ callers'[c] # callers[c] /\ Instr(c).do = do

\* C30: every write of branches, branchesAll, mapping, mappingAll and of the
\* mapping tree by AddBranch, AddMapping, Reset and Refresh is made by the
\* caller that holds the lock of the tree for writing, and every read of them
\* by Dir, ReadFile, WriteFile, ItemOp, Config, KnownBranches and
\* NotReachableBranches is made by a caller that holds the lock at least for
\* reading.
C30_AccessesUnderLock ==
    [][\A c \in LockCallers :
          /\ (Accesses(c, "write") /\ callers[c].method \in Writers) => treeLock.writer = c
          /\ (Accesses(c, "read") /\ callers[c].method \in Readers \cup Walkers)
                => (treeLock.writer = c \/ treeLock.readers[c] > 0)]_vars


\* ---------------------------------------------------------------------------
\* Properties of the lock of the transport
\* ---------------------------------------------------------------------------

\* C31: the maps of the transport are read and written under its lock, so
\* that of two calls of RegisterPeer for one name at most one succeeds: the
\* call that stores the peer and returns without error finds the name not
\* registered at that moment.
C31_RegisterPeerUnderLock ==
    [][\A t \in DOMAIN thr :
          (Moves(t) /\ thr[t].pc = "register" /\ result'.type = "")
              => thr[t].node \notin DOMAIN client.peers]_vars


\* C32: a call of Sync or of CopyFile returns, whatever AddBranch,
\* AddMapping, Reset or Refresh do at the same time: taking the read lock
\* again while holding it never waits forever behind a writer that waits
\* for the lock.
C32_CopyAndSyncFinish ==
    \A c \in LockCallers :
        (Running(c) /\ callers[c].method \in Nested) ~> ~Running(c)


\* ---------------------------------------------------------------------------
\* Properties of the ping of a peer that is not registered
\* ---------------------------------------------------------------------------

\* RegisterPeer registered the peer n and RemovePeer did not remove it
Registered(n) == trust[n] # "none"

\* C33: SendPing with an endpoint, for a name that is not registered, neither
\* overwrites nor removes a registration of the name that RegisterPeer made,
\* also when it was made while the ping was under way.
C33_PingKeepsRegistration ==
    [][\A t \in DOMAIN thr :
          (Moves(t) /\ thr[t].op = "ping" /\ Registered(thr[t].node))
              => /\ thr[t].node \in DOMAIN client'.peers
                 /\ client'.peers[thr[t].node] = client.peers[thr[t].node]]_vars


\* ---------------------------------------------------------------------------
\* Properties of the pipe of CopyFile
\* ---------------------------------------------------------------------------

\* C34: when CopyFile returns, after a copy, after an error of the read or of
\* the write and for a source that does not exist, the reader and the writer
\* of its pipe are closed.
C34_PipeClosedAtReturn ==
    [][(TreeStep("copyfile") /\ tlast'.ok)
          => tlast'.pipe.reader /\ tlast'.pipe.writer]_vars


\* ---------------------------------------------------------------------------
\* Properties of concurrent requests to one branch
\* ---------------------------------------------------------------------------

\* C35: the requests to one branch are executed one at a time, two writes to
\* one file do not interleave: the write that a request makes leaves the file
\* as Branch.WriteFile leaves it when it runs alone on the file as it is.
C35_RequestsOneAtATime ==
    [][\A g \in Goroutines :
          (callers[g].pc = "open" /\ callers'[g].pc = "idle")
              => hostfs' = BranchWriteFile(branch, hostfs, callers[g].p, callers[g].data,
                                           callers[g].o, Zeros(ReadBufferSize)).fs]_vars


\* ---------------------------------------------------------------------------
\* Properties of the traversal of the mapping tree
\* ---------------------------------------------------------------------------

\* The path p comes before the path q when the items are visited parent
\* first and the children of an item in the order of their names
RECURSIVE PathBefore(_, _)
PathBefore(p, q) ==
    IF p = <<>> THEN q # <<>>
    ELSE IF q = <<>> THEN FALSE
    ELSE IF Head(p) = Head(q) THEN PathBefore(Tail(p), Tail(q))
    ELSE StrLess(Head(p), Head(q))

\* The visit v is made at the item with the rest of the path and carries the
\* branches of the item in their order
VisitOf(v, item, rest) ==
    v.item = item /\ v.branchPath = rest /\ v.branches = tree.root[item]

\* C36: the traversal visits the root item first with the whole path, then
\* for every component in turn that is a child the child with the path
\* shortened by the component, and stops at the first component that is no
\* child; when the path is used up and recursive is set it visits every item
\* below the last one as well, the children in the order of their names;
\* every visit carries the branches of its item in their order.
C36_Traversal ==
    [][tlast'.op = "find" =>
         LET q == createMappingPath(tlast'.args[1])
             k == Cardinality(ItemsAlong(tree.root, q)) - 1
             v == tlast'.sent
             below == {it \in DOMAIN tree.root : Len(it) > Len(q) /\ IsUnder(q, it)}
             more == k = Len(q) /\ tlast'.args[2]
         IN /\ Len(v) = k + 1 + (IF more THEN Cardinality(below) ELSE 0)
            /\ \A j \in 0..k : VisitOf(v[j + 1], SubSeq(q, 1, j), SubSeq(q, j + 1, Len(q)))
            /\ more =>
                 /\ {v[j].item : j \in (k + 2)..Len(v)} = below
                 /\ \A j \in (k + 2)..Len(v) : VisitOf(v[j], v[j].item, <<>>)
                 /\ \A i, j \in (k + 2)..Len(v) :
                       i < j => PathBefore(v[i].item, v[j].item)]_vars

C36_Witness ==
    /\ tlast.op = "find"
    /\ tlast.args = <<<<cD>>, TRUE>>
    /\ Len(tlast.sent) = 3
    /\ tlast.sent[2].branchPath = <<>>
    /\ tlast.sent[3].item = <<cD, cF>>
    /\ Len(tree.root[<<>>]) >= 1


\* ---------------------------------------------------------------------------
\* Properties of the write of a branch
\* ---------------------------------------------------------------------------

\* C37: after a write that the branch answered without error the file is
\* there and holds the payload at the offset of the request; a write whose
\* target cannot be opened, such as a directory, is answered with an error.
C37_WriteSucceedsOrFails ==
    [][(served' = served + 1 /\ last'.a = "write" /\ last'.api = "handler" /\ last'.err = "")
          => \E data \in Payloads :
               LET subPath == constructSubPath(branch, last'.p).path IN
               /\ subPath \in DOMAIN hostfs'
               /\ ~hostfs'[subPath].dir
               /\ Len(hostfs'[subPath].data) >= last'.o + Len(data)
               /\ SubSeq(hostfs'[subPath].data, last'.o + 1, last'.o + Len(data)) = data]_vars


\* ------------------------------------------------------------------------
\* Properties of the errors of WriteFileFromBuffer
\* ------------------------------------------------------------------------

\* Tree.WriteFile of the path finds no branch that is mounted writable
AllMountedReadOnly(spath) ==
    LET targets == Targets(findPathBranches(tree.root, <<>>, SplitDir(spath),
                                            createMappingPath(SplitDir(spath)), FALSE))
    IN \A i \in 1..Len(targets) : ~targets[i].writable

\* C38: WriteFileFromBuffer returns an error whenever a write it issued
\* failed: when every applicable branch of the path is mounted not writable
\* it returns the not-writable error, for every source including the empty
\* one, also when the write that failed is the final one of no bytes.
C38_WriteFromReportsFailure ==
    [][(TreeStep("writefrom") /\ AllMountedReadOnly(tlast'.args[1]))
          => tlast'.err = PlainError(ErrNotWritable)]_vars


\* ------------------------------------------------------------------------
\* Properties of a Refresh that follows a Refresh
\* ------------------------------------------------------------------------

\* The pings of a call of Refresh find every branch either in reach or out
\* of reach, whatever entry of branchesAll names it
SteadyReach(call) ==
    \A i, j \in 1..Len(call.start.branchesAll) :
       call.start.branchesAll[i].branch = call.start.branchesAll[j].branch
          => call.pings[i] = call.pings[j]

\* The last step belongs to a Refresh that began directly after another
\* Refresh had returned, with the branches in reach as before
SecondRefresh ==
    /\ tlast.op \in {"refresh", "remap"}
    /\ tlast.call.again
    /\ SteadyReach(tlast.call)

\* C39: a second Refresh directly after the first, with the reachability and
\* the certificates of the branches unchanged, returns and leaves the
\* branches, the registered peers of the transport, mappingAll and the
\* mapping tree as the first left them, also for branches whose AddBranch
\* was rejected.
C39_RefreshIdempotent ==
    SecondRefresh =>
        /\ refresh.pc # "panic"
        /\ tlast.ok => /\ tree.branches = tlast.call.start.branches
                       /\ tree.peers = tlast.call.start.peers
                       /\ tree.mappingAll = tlast.call.start.mappingAll
                       /\ tree.root = tlast.call.start.root


\* ------------------------------------------------------------------------
\* Properties of the overlay
\* ------------------------------------------------------------------------

\* The transport delivered every request of the call
Delivered(op) ==
    \A i \in 1..Len(op.sent) :
       op.sent[i].err \notin {handleError(TRUE, "connection refused"), handleError(FALSE, EOF)}

\* The entries that a listing has for the tree path spath
Listed(op, spath) ==
    {op.fis[j][k] : <<j, k>> \in {jk \in (1..Len(op.dirs)) \X (1..2) :
                                    /\ op.dirs[jk[1]] = SplitDir(spath)
                                    /\ jk[2] <= Len(op.fis[jk[1]])
                                    /\ op.fis[jk[1]][jk[2]].name = SplitFile(spath)}}

\* A ReadFile from the begin of a path follows a Dir that returned a
\* listing; the transport delivered every request of both
ReadAfterDir ==
    /\ tlast.op = "dir" /\ tlast.err = NilError
    /\ TreeStep("read") /\ tlast'.args[2] = 0
    /\ Delivered(tlast')

\* C40: Dir and ReadFile agree on the overlay: a name that Dir lists as a
\* file of the branch b is read with the content of the file of b, and a
\* name that Dir lists as a directory is not read: ReadFile returns an error
\* and not the content of a file of that name on a later branch.
C40_DirAndReadAgree ==
    [][ReadAfterDir =>
         \A e \in Listed(tlast, tlast'.args[1]) :
            IF e.isDir
            THEN tlast'.err # NilError
            ELSE /\ tlast'.err = NilError
                 /\ tlast'.n = 1 /\ tlast'.p[1] = Mark(e.from)]_vars

====
